---- MODULE Spec2Model ----
(***************************************************************************)
(* A model of the memory / context core of the companion-agent backend:    *)
(*   - AgentCore's per-session conversation history and its compression    *)
(*     (src/backend/agent/core.py),                                        *)
(*   - the token estimators, ContextAssembler and the outbound token       *)
(*     budget (src/backend/agent/context.py, src/backend/agent/llm.py),    *)
(*   - TemporalMemoryTree (src/memory_plugins/tree_graph/schema),          *)
(*   - KnowledgeGraph (src/memory_framework/memory_framework/schema).      *)
(*                                                                         *)
(* Text.  A Python string is modelled as a sequence of pieces.  A piece is *)
(* a run of characters of which only what the code looks at is kept: its   *)
(* kind (a fixed label of the code, a line break, a message content, ...), *)
(* an index telling contents apart, its number of characters (len) and the *)
(* number of them in the CJK range U+4E00..U+9FFF (cjk).  Concatenation is *)
(* \o, and the token estimators are computed from the summed counts, which *)
(* is all they read of a string.                                           *)
(***************************************************************************)
EXTENDS Integers, Sequences, FiniteSets, TLC

\* ------------------------------------------------------------------ bounds
\* request slots that may be in flight at once
NumReqs == 2
\* chat requests / clear requests / transcript loads started in one behaviour
MaxChats == 2
MaxClears == 1
MaxLoads == 2
\* the longest stored transcript that is loaded into a session
MaxTranscript == 22

\* ------------------------------------------------------- program constants
MAX_HISTORY_TURNS == 10
HISTORY_TOKEN_BUDGET == 1200
COMPRESSION_CONTEXT_RETENTION_TURNS == 2
\* the default of the compression_threshold setting (SettingsStore)
DEFAULT_COMPRESSION_THRESHOLD == 1000

\* ------------------------------------------------------------------- text
Piece(k, i, c, n) == [k |-> k, i |-> i, cjk |-> c, len |-> n]

RECURSIVE SumLen(_)
SumLen(t) == IF t = <<>> THEN 0 ELSE Head(t).len + SumLen(Tail(t))

RECURSIVE SumCjk(_)
SumCjk(t) == IF t = <<>> THEN 0 ELSE Head(t).cjk + SumCjk(Tail(t))

Max(a, b) == IF a >= b THEN a ELSE b
Min(a, b) == IF a <= b THEN a ELSE b

\* chinese_ratio > 0.3, on the character counts
MostlyCjk(c, n) == 10 * c > 3 * n

\* context.py approx_tokens, on the counts of a string
ApproxCount(c, n) ==
  IF n = 0 THEN 0
  ELSE IF MostlyCjk(c, n) THEN Max(1, (2 * n) \div 3)
  ELSE Max(1, n \div 4)

approx_tokens(t) == ApproxCount(SumCjk(t), SumLen(t))

\* "\n".join(parts) / "\n\n".join(parts), parts a sequence of texts
NL == Piece("nl", 0, 0, 1)

RECURSIVE Join(_, _)
Join(sep, parts) ==
  IF parts = <<>> THEN <<>>
  ELSE IF Len(parts) = 1 THEN parts[1]
  ELSE parts[1] \o sep \o Join(sep, Tail(parts))

\* a Python string is falsy when it has no character
IsEmpty(t) == SumLen(t) = 0

\* the fixed labels of core.py, with their character counts: the role labels
\* (two CJK characters, a colon, a blank) and the bracketed headings with
\* the line breaks around them: "[previous summary]" (7 CJK of 9), "[early
\* dialogue]" (4 of 6), "[recent dialogue]" (5 of 7), "[summary]" (4 of 6)
LabelUser == Piece("label_user", 0, 2, 4)
LabelAssistant == Piece("label_assistant", 0, 2, 4)
HeadPrevSummary == <<Piece("head_prev_summary", 0, 7, 9), NL>>
HeadEarly == <<NL, NL, Piece("head_early", 0, 4, 6), NL>>
HeadRecent == <<Piece("head_recent", 0, 5, 7), NL>>
HeadSummary == <<Piece("head_summary", 0, 4, 6), NL>>

\* ------------------------------------------------------------ the inputs
Sessions == {"default"}
Reqs == 1 .. NumReqs
Private == 0 - 1

\* what a user may type, what the model may answer, what a summary may be
UserInputs == {Piece("in", 1, 0, 2), Piece("in", 2, 0, 2400)}
Answers == {Piece("ans", 1, 0, 2)}
Summaries == {Piece("sum", 1, 0, 40)}
Strategies == {"compression", "sliding_window"}
\* compression_threshold is stored unvalidated: the default and a small one
Thresholds == {5, DEFAULT_COMPRESSION_THRESHOLD}

Msg(role, content) == [role |-> role, content |-> content]

\* a stored transcript of n messages: every fifth one long, a system message
\* in third place
TranscriptRole(i) ==
  IF i = 3 THEN "system" ELSE IF i % 2 = 1 THEN "user" ELSE "assistant"
Transcript(n) ==
  [i \in 1 .. n |->
     Msg(TranscriptRole(i),
         Piece("t", i, 0, IF i % 5 = 1 THEN 2400 ELSE 2))]
TranscriptLens == {6, MaxTranscript}

\* ------------------------------------------------------------ AgentCore
VARIABLES
  conversation_history,   \* session -> sequence of messages
  compressed_history,     \* session -> text ("" is <<>>)
  compression_state,      \* session -> [compressing, last_compressed_at]
  listGen,                \* session -> identity of the list object it holds
  req,                    \* request slot -> position and locals of a chat
  ops                     \* how many requests of each kind were started

\* what the last chat call of each request slot gave its caller
VARIABLES responses

\* ContextAssembler.assemble: its arguments and the pack it returned
VARIABLES assemble_args, assemble_pack

\* OpenAICompatibleClient._apply_token_budget: the client and the messages
\* it is given, and the messages it returned
VARIABLES budget_args, budget_result

\* TemporalMemoryTree
VARIABLES
  nodes,          \* node id -> MemoryNode; the ids are 1 .. Len(nodes)
  year_index, month_index, week_index, day_index,   \* key -> node id
  root_children   \* the ids of the year nodes

\* KnowledgeGraph
VARIABLES
  entities,        \* entity id -> Entity; the ids are 1 .. Len(entities)
  relationships,   \* relationship id -> Relationship
  name_index,      \* lower-cased name -> entity id
  type_index,      \* entity type -> entity ids
  outgoing_edges, incoming_edges,   \* entity id -> relationship ids
  graph_calls      \* the calls made on the graph and what they returned

\* MemoryManager
VARIABLES
  storage,   \* the two JSON documents under storage_path
  manager    \* the manager the caller holds, and the calls made on it

\* MemoryPluginService.get_conversation_context: the memories the plugin
\* holds and the query, and the sections returned
VARIABLES context_args, context_result

\* AgentCore.chat building its two messages: the memory it is given, and
\* the pack and the messages it built
VARIABLES chat_args, chat_built

agentVars ==
  <<conversation_history, compressed_history, compression_state, listGen,
    req, ops>>
assembleVars == <<assemble_args, assemble_pack>>
budgetVars == <<budget_args, budget_result>>
treeVars ==
  <<nodes, year_index, month_index, week_index, day_index, root_children>>
graphVars ==
  <<entities, relationships, name_index, type_index, outgoing_edges,
    incoming_edges, graph_calls>>

managerVars == <<storage, manager>>
contextVars == <<context_args, context_result>>
responseVars == <<responses>>
buildVars == <<chat_args, chat_built>>
\* what a step of chat that returns to its caller leaves alone
nonChatVars ==
  <<assembleVars, budgetVars, treeVars, graphVars, managerVars, contextVars,
    buildVars>>
nonAgentVars == <<nonChatVars, responseVars>>
nonAssembleVars ==
  <<agentVars, budgetVars, treeVars, graphVars, managerVars, contextVars,
    responseVars, buildVars>>
nonBudgetVars ==
  <<agentVars, assembleVars, treeVars, graphVars, managerVars, contextVars,
    responseVars, buildVars>>
nonTreeVars ==
  <<agentVars, assembleVars, budgetVars, graphVars, managerVars, contextVars,
    responseVars, buildVars>>
nonGraphVars ==
  <<agentVars, assembleVars, budgetVars, treeVars, managerVars, contextVars,
    responseVars, buildVars>>
\* what a call on the manager leaves alone besides the tree and the graph
nonManagerVars ==
  <<agentVars, assembleVars, budgetVars, contextVars, responseVars, buildVars>>
nonBuildVars ==
  <<agentVars, assembleVars, budgetVars, treeVars, graphVars, managerVars,
    contextVars, responseVars>>
nonContextVars ==
  <<agentVars, assembleVars, budgetVars, treeVars, graphVars, managerVars,
    responseVars, buildVars>>

vars ==
  <<agentVars, assembleVars, budgetVars, treeVars, graphVars, managerVars,
    contextVars, responseVars, buildVars>>

IdleReq ==
  [pc |-> "idle", sid |-> "default", msg |-> Piece("none", 0, 0, 0),
   retain |-> <<>>, gen |-> Private, retainText |-> <<>>, full |-> <<>>,
   out |-> <<>>, how |-> "none", ans |-> Piece("none", 0, 0, 0),
   preHistory |-> <<>>, preCompressed |-> <<>>]

\* the dict chat returns, or the exception that leaves it; the runs give
\* chat no memory_context over an empty store, so the pack holds no cards
Response(outcome, assistant_message, mode) ==
  [outcome |-> outcome, assistant_message |-> assistant_message,
   mode |-> mode, used_memory_cards |-> <<>>]
NoResponse == Response("none", <<>>, "")

\* _mode(user_message): "task" for a message holding a task keyword
Mode(m) == IF m.k = "in_task" THEN "task" ELSE "chat"

\* the exceptions client.chat lets through (llm.py 137-155)
LlmExceptions == {"Timeout", "HTTPError"}
ExceptionText(e) == Piece(e, 0, 0, 20)
ModelCallFailed == Piece("model_call_failed", 0, 7, 8)
NotConfigured == Piece("not_configured", 0, 24, 56)

\* f"{role_label}: {msg['content']}"
FormatLine(m) ==
  <<IF m.role = "user" THEN LabelUser ELSE LabelAssistant, m.content>>

FormatLines(msgs) ==
  Join(<<NL>>, [i \in 1 .. Len(msgs) |-> FormatLine(msgs[i])])

\* a walk that passes over a message that would overflow and goes on
RECURSIVE SelectNewestSkipping(_, _, _)
SelectNewestSkipping(history, k, total) ==
  IF k = 0 THEN <<>>
  ELSE LET t == approx_tokens(<<history[k].content>>)
       IN IF total + t > HISTORY_TOKEN_BUDGET
          THEN SelectNewestSkipping(history, k - 1, total)
          ELSE Append(SelectNewestSkipping(history, k - 1, total + t),
                      history[k])

\* _get_conversation_history: from the newest message backwards, stop at the
\* first one that would overflow HISTORY_TOKEN_BUDGET
RECURSIVE SelectNewest(_, _, _)
SelectNewest(history, k, total) ==
  IF k = 0 THEN <<>>
  ELSE LET t == approx_tokens(<<history[k].content>>)
       IN IF total + t > HISTORY_TOKEN_BUDGET THEN <<>>
          ELSE Append(SelectNewest(history, k - 1, total + t), history[k])

GetConversationHistory(history) == SelectNewest(history, Len(history), 0)

\* _get_sliding_window_history_text
SlidingWindowHistoryText(history) ==
  FormatLines(GetConversationHistory(history))

LastN(s, n) == SubSeq(s, Len(s) - Min(n, Len(s)) + 1, Len(s))
FirstN(s, n) == SubSeq(s, 1, Min(n, Len(s)))

RetentionCount == COMPRESSION_CONTEXT_RETENTION_TURNS * 2

\* a slip in the retention count: turns taken for messages
MsgsToRetainTurns(msgs) ==
  IF Len(msgs) > RetentionCount
  THEN LastN(msgs, COMPRESSION_CONTEXT_RETENTION_TURNS) ELSE msgs

\* msgs_to_retain / msgs_to_compress of _get_compressed_history_text
MsgsToRetain(msgs) ==
  IF Len(msgs) > RetentionCount THEN LastN(msgs, RetentionCount) ELSE msgs
MsgsToCompress(msgs) ==
  IF Len(msgs) > RetentionCount
  THEN FirstN(msgs, Len(msgs) - RetentionCount) ELSE <<>>

\* full_history: the summary and the older messages, as handed to the model
FullHistory(compressed, msgs) ==
  LET compress_text == FormatLines(MsgsToCompress(msgs))
  IN IF ~IsEmpty(compressed) /\ ~IsEmpty(compress_text)
     THEN HeadPrevSummary \o compressed \o HeadEarly \o compress_text
     ELSE IF ~IsEmpty(compressed) THEN HeadPrevSummary \o compressed
     ELSE compress_text

\* the text returned while the threshold is not exceeded
UncompressedResult(compressed, retain_text) ==
  Join(<<NL, NL>>,
       (IF ~IsEmpty(compressed)
        THEN <<(HeadPrevSummary \o compressed)>> ELSE <<>>)
       \o (IF ~IsEmpty(retain_text)
           THEN <<(HeadRecent \o retain_text)>> ELSE <<>>))

\* the text returned after a successful compression
CompressedResult(compressed_result, retain_text) ==
  Join(<<NL, NL>>,
       <<(HeadSummary \o compressed_result)>>
       \o (IF ~IsEmpty(retain_text)
           THEN <<(HeadRecent \o retain_text)>> ELSE <<>>))

HistoryCap == MAX_HISTORY_TURNS * 2

\* a slip in the trimming slice: the oldest messages are kept
TrimHistoryOldest(h) == IF Len(h) > HistoryCap THEN FirstN(h, HistoryCap) ELSE h

\* _add_to_history on the value of the list: append, then keep the newest
TrimHistory(h) == IF Len(h) > HistoryCap THEN LastN(h, HistoryCap) ELSE h
AddToHistoryValue(h, m) == TrimHistory(Append(h, m))

\* identities of list objects: the smallest one no session or request holds
\* that is not the list of session s
GenPool == 0 .. (NumReqs + Cardinality(Sessions))
UsedGens(lg, rq, s) ==
  {lg[s2] : s2 \in Sessions \ {s}} \cup {rq[r].gen : r \in Reqs}
FreshGen(lg, rq, s) ==
  CHOOSE g \in GenPool :
    /\ g \notin UsedGens(lg, rq, s)
    /\ \A g2 \in GenPool : g2 \notin UsedGens(lg, rq, s) => g <= g2

\* an in-place append to the list a session holds is seen by every request
\* whose msgs_to_retain is that same list
AliasAppend(rq, lg, s, m) ==
  [r \in Reqs |->
     IF rq[r].gen = lg[s] THEN [rq[r] EXCEPT !.retain = Append(@, m)]
     ELSE rq[r]]

\* the stored state that _add_to_history and clear_history work on
Store(h, c, cs, lg, rq) == [h |-> h, c |-> c, cs |-> cs, lg |-> lg, rq |-> rq]
CurrentStore ==
  Store(conversation_history, compressed_history, compression_state,
        listGen, req)

\* _add_to_history(session_id, role, content): append in place, then rebind
\* the session to a new list of the newest HistoryCap messages when too long
AddToHistory(st, s, m) ==
  LET appended == Append(st.h[s], m)
      rq1 == AliasAppend(st.rq, st.lg, s, m)
  IN IF Len(appended) > HistoryCap
     THEN [st EXCEPT !.h[s] = AddToHistoryValue(st.h[s], m),
                     !.lg[s] = FreshGen(st.lg, rq1, s),
                     !.rq = rq1]
     ELSE [st EXCEPT !.h[s] = AddToHistoryValue(st.h[s], m), !.rq = rq1]

DefaultCompressionState == [compressing |-> FALSE, last_compressed_at |-> 0]

\* clear_history(session_id)
ClearedKeepingSummary(st, s) ==
  [st EXCEPT !.h[s] = <<>>, !.lg[s] = FreshGen(st.lg, st.rq, s)]

Cleared(st, s) ==
  [st EXCEPT !.h[s] = <<>>,
             !.lg[s] = FreshGen(st.lg, st.rq, s),
             !.c[s] = <<>>,
             !.cs[s] = DefaultCompressionState]

\* load_conversation_to_context: the loop over detail.messages (the store
\* reached after each message is bound as a value before the next is added)
RECURSIVE AddMessages(_, _, _, _)
AddMessages(st, s, msgs, i) ==
  IF i > Len(msgs) THEN st
  ELSE LET nxt == IF msgs[i].role \in {"user", "assistant"}
                  THEN AddToHistory(st, s, msgs[i]) ELSE st
       IN CHOOSE res \in {AddMessages(v, s, msgs, i + 1) : v \in {nxt}} : TRUE

SetStore(st) ==
  /\ conversation_history' = st.h
  /\ compressed_history' = st.c
  /\ compression_state' = st.cs
  /\ listGen' = st.lg
  /\ req' = st.rq

TypeOK ==
  /\ \A s \in Sessions : Len(conversation_history[s]) >= 0
  /\ \A r \in Reqs : req[r].pc \in
       {"idle", "check", "set", "compress", "finally", "llm", "add2"}

InitAgent ==
  /\ conversation_history = [s \in Sessions |-> <<>>]
  /\ compressed_history = [s \in Sessions |-> <<>>]
  /\ compression_state = [s \in Sessions |-> DefaultCompressionState]
  /\ listGen = [s \in Sessions |-> 0]
  /\ req = [r \in Reqs |-> IdleReq]
  /\ ops = [chats |-> 0, clears |-> 0, loads |-> 0]
  /\ responses = [r \in Reqs |-> NoResponse]

\* ---- AgentCore.chat, from its start to the decision of
\* ---- _get_history_text (core.py 243-168)
ChatBegin(r, s, m, strat, thr) ==
  /\ req[r].pc = "idle"
  /\ ops.chats < MaxChats
  /\ ops' = [ops EXCEPT !.chats = @ + 1]
  /\ LET h == conversation_history[s]
         c == compressed_history[s]
         base == [IdleReq EXCEPT !.sid = s, !.msg = m]
         retain == MsgsToRetain(h)
         retain_text == FormatLines(retain)
         full == FullHistory(c, h)
     IN req' = [req EXCEPT ![r] =
          IF strat # "compression"
          THEN [base EXCEPT !.pc = "llm", !.how = "window",
                            !.out = SlidingWindowHistoryText(h)]
          ELSE IF h = <<>> /\ IsEmpty(c)
          THEN [base EXCEPT !.pc = "llm", !.how = "nohistory", !.out = <<>>]
          ELSE IF approx_tokens(full) <= thr
          THEN [base EXCEPT !.pc = "llm", !.how = "under",
                            !.out = UncompressedResult(c, retain_text)]
          ELSE [base EXCEPT !.pc = "check", !.retain = retain,
                            !.gen = IF Len(h) > RetentionCount
                                    THEN Private ELSE listGen[s],
                            !.retainText = retain_text, !.full = full,
                            !.preHistory = h, !.preCompressed = c]]
  /\ responses' = [responses EXCEPT ![r] = NoResponse]
  /\ UNCHANGED <<conversation_history, compressed_history,
                 compression_state, listGen>>
  /\ UNCHANGED nonChatVars

\* core.py 285-293: a setting is missing; chat returns before any call
ChatUnconfigured(r, s, m) ==
  /\ req[r].pc = "idle"
  /\ ops.chats < MaxChats
  /\ ops' = [ops EXCEPT !.chats = @ + 1]
  /\ responses' = [responses EXCEPT ![r] =
       Response("unconfigured", <<NotConfigured>>, Mode(m))]
  /\ UNCHANGED <<conversation_history, compressed_history,
                 compression_state, listGen, req>>
  /\ UNCHANGED nonChatVars

\* core.py 170-172: the test of the compressing flag
CheckFlag(r) ==
  /\ req[r].pc = "check"
  /\ req' = [req EXCEPT ![r] =
       IF compression_state[req[r].sid].compressing
       THEN [@ EXCEPT !.pc = "llm", !.how = "busy",
                      !.out = SlidingWindowHistoryText(
                                conversation_history[req[r].sid]),
                      !.retain = <<>>, !.gen = Private,
                      !.retainText = <<>>, !.full = <<>>,
                      !.preHistory = <<>>, !.preCompressed = <<>>]
       ELSE [@ EXCEPT !.pc = "set"]]
  /\ UNCHANGED <<conversation_history, compressed_history,
                 compression_state, listGen, ops>>
  /\ UNCHANGED nonAgentVars

\* core.py 174: the flag is raised and the compression call goes out
SetFlag(r) ==
  /\ req[r].pc = "set"
  /\ compression_state' =
       [compression_state EXCEPT ![req[r].sid].compressing = TRUE]
  /\ req' = [req EXCEPT ![r].pc = "compress"]
  /\ UNCHANGED <<conversation_history, compressed_history, listGen, ops>>
  /\ UNCHANGED nonAgentVars

\* core.py 177-191: _call_compression returned the non-empty text
CompressOk(r, text) ==
  /\ req[r].pc = "compress"
  /\ LET s == req[r].sid
         rq1 == [req EXCEPT ![r] =
                   [@ EXCEPT !.pc = "finally", !.how = "ok",
                             !.out = CompressedResult(text, req[r].retainText),
                             !.retain = <<>>, !.gen = Private,
                             !.retainText = <<>>]]
     IN /\ compressed_history' = [compressed_history EXCEPT ![s] = text]
        /\ conversation_history' =
             [conversation_history EXCEPT ![s] = req[r].retain]
        /\ listGen' = [listGen EXCEPT ![s] =
             IF req[r].gen # Private THEN req[r].gen
             ELSE FreshGen(listGen, rq1, s)]
        /\ compression_state' =
             [compression_state EXCEPT ![s].last_compressed_at = 1]
        /\ req' = rq1
  /\ UNCHANGED ops
  /\ UNCHANGED nonAgentVars

\* a slip in the failure branch: the history is collapsed as on success
CompressFailCollapsing(r, how) ==
  /\ req[r].pc = "compress"
  /\ req' = [req EXCEPT ![r] =
       [@ EXCEPT !.pc = "finally", !.how = how,
                 !.out = SlidingWindowHistoryText(req[r].retain),
                 !.retain = <<>>, !.gen = Private, !.retainText = <<>>]]
  /\ conversation_history' =
       [conversation_history EXCEPT ![req[r].sid] = req[r].retain]
  /\ UNCHANGED <<compressed_history, compression_state, listGen, ops>>
  /\ UNCHANGED nonAgentVars

\* core.py 192-198: _call_compression raised, or returned "" after strip()
CompressFail(r, how) ==
  /\ req[r].pc = "compress"
  /\ req' = [req EXCEPT ![r] =
       [@ EXCEPT !.pc = "finally", !.how = how,
                 !.out = SlidingWindowHistoryText(
                           conversation_history[req[r].sid]),
                 !.retain = <<>>, !.gen = Private, !.retainText = <<>>]]
  /\ UNCHANGED <<conversation_history, compressed_history,
                 compression_state, listGen, ops>>
  /\ UNCHANGED nonAgentVars

\* core.py 199-200: finally
Finally(r) ==
  /\ req[r].pc = "finally"
  /\ compression_state' =
       [compression_state EXCEPT ![req[r].sid].compressing = FALSE]
  /\ req' = [req EXCEPT ![r] = [@ EXCEPT !.pc = "llm", !.full = <<>>]]
  /\ UNCHANGED <<conversation_history, compressed_history, listGen, ops>>
  /\ UNCHANGED nonAgentVars

\* core.py 412-418: the chat call returned; the user message is saved
LlmOk(r, ans) ==
  /\ req[r].pc = "llm"
  /\ SetStore(AddToHistory(
       [CurrentStore EXCEPT
          !.rq[r] = [IdleReq EXCEPT !.pc = "add2", !.sid = req[r].sid,
                                    !.msg = req[r].msg, !.ans = ans]],
       req[r].sid, Msg("user", req[r].msg)))
  /\ UNCHANGED ops
  /\ UNCHANGED nonAgentVars

\* core.py 419: the reply is saved, and chat returns
AddAssistant(r) ==
  /\ req[r].pc = "add2"
  /\ SetStore(AddToHistory(
       [CurrentStore EXCEPT !.rq[r] = IdleReq],
       req[r].sid, Msg("assistant", req[r].ans)))
  /\ responses' = [responses EXCEPT ![r] =
       Response("answered", <<req[r].ans>>, Mode(req[r].msg))]
  /\ UNCHANGED ops
  /\ UNCHANGED nonChatVars

\* the exception of the chat call leaves chat
LlmFailRaising(r, e) ==
  /\ req[r].pc = "llm"
  /\ req' = [req EXCEPT ![r] = IdleReq]
  /\ responses' = [responses EXCEPT ![r] =
       Response("raised", <<ExceptionText(e)>>, "")]
  /\ UNCHANGED <<conversation_history, compressed_history,
                 compression_state, listGen, ops>>
  /\ UNCHANGED nonChatVars

\* core.py 421-441: the chat call raised; nothing is saved, and chat
\* returns the text that names the exception
LlmFail(r, e) ==
  /\ req[r].pc = "llm"
  /\ req' = [req EXCEPT ![r] = IdleReq]
  /\ responses' = [responses EXCEPT ![r] =
       Response("failed", <<ModelCallFailed, ExceptionText(e)>>,
                Mode(req[r].msg))]
  /\ UNCHANGED <<conversation_history, compressed_history,
                 compression_state, listGen, ops>>
  /\ UNCHANGED nonChatVars

\* main.py clear_history -> AgentCore.clear_history
ClearHistory(s) ==
  /\ ops.clears < MaxClears
  /\ ops' = [ops EXCEPT !.clears = @ + 1]
  /\ SetStore(Cleared(CurrentStore, s))
  /\ UNCHANGED nonAgentVars

\* main.py load_conversation_to_context
LoadConversation(s, n) ==
  /\ ops.loads < MaxLoads
  /\ ops' = [ops EXCEPT !.loads = @ + 1]
  /\ SetStore(AddMessages(Cleared(CurrentStore, s), s, Transcript(n), 1))
  /\ UNCHANGED nonAgentVars

\* ------------------------------------------------------ ContextAssembler
\* how many memory cards one call of assemble is given at most
MaxCards == 3

\* the defaults of the ContextBudget dataclass
ContextBudget ==
  [persona |-> 450, state |-> 300, memory |-> 900, tool |-> 600,
   max_total |-> 2200]

\* text[:n]; a piece that is cut is all CJK or holds no CJK character
RECURSIVE TakeChars(_, _)
TakeChars(t, n) ==
  IF t = <<>> \/ n <= 0 THEN <<>>
  ELSE IF Head(t).len <= n
  THEN <<Head(t)>> \o TakeChars(Tail(t), n - Head(t).len)
  ELSE <<[Head(t) EXCEPT !.len = n,
                         !.cjk = IF @ = Head(t).len THEN n ELSE 0]>>

\* the one-character ellipsis U+2026
Ellipsis == Piece("ellipsis", 0, 0, 1)

\* ContextAssembler._trim
Trim(text, max_tokens) ==
  IF approx_tokens(text) <= max_tokens THEN text
  ELSE TakeChars(text, max_tokens * 4) \o <<Ellipsis>>

\* a slip in the card loop: a card that overflows is skipped (continue)
RECURSIVE TrimCardsSkipping(_, _, _)
TrimCardsSkipping(cards, i, mem_used) ==
  IF i > Len(cards) THEN [cards |-> <<>>, mem_used |-> mem_used]
  ELSE LET t == approx_tokens(cards[i])
       IN IF mem_used + t > ContextBudget.memory
          THEN TrimCardsSkipping(cards, i + 1, mem_used)
          ELSE LET rest == TrimCardsSkipping(cards, i + 1, mem_used + t)
               IN [cards |-> <<cards[i]>> \o rest.cards,
                   mem_used |-> rest.mem_used]

\* the card loop of assemble, from card i on: trimmed_cards and mem_used
RECURSIVE TrimCards(_, _, _)
TrimCards(cards, i, mem_used) ==
  IF i > Len(cards) THEN [cards |-> <<>>, mem_used |-> mem_used]
  ELSE LET t == approx_tokens(cards[i])
       IN IF mem_used + t > ContextBudget.memory
          THEN [cards |-> <<>>, mem_used |-> mem_used]
          ELSE LET rest == TrimCards(cards, i + 1, mem_used + t)
               IN [cards |-> <<cards[i]>> \o rest.cards,
                   mem_used |-> rest.mem_used]

\* ContextAssembler.assemble
AssemblePack(persona, state, memory_cards, user_input) ==
  LET p == Trim(persona, ContextBudget.persona)
      s == Trim(state, ContextBudget.state)
      sel == TrimCards(memory_cards, 1, 0)
  IN [persona |-> p, state |-> s, memory_cards |-> sel.cards,
      user_input |-> user_input,
      estimated_tokens |-> approx_tokens(p) + approx_tokens(s)
                             + sel.mem_used + approx_tokens(user_input)]

\* the texts assemble is given: personas and states under and over their
\* budgets, cards of 400, 500, 100 and 0 estimated tokens and a CJK card of 400
Personas == {<<Piece("persona", 1, 0, 100)>>, <<Piece("persona", 2, 0, 2000)>>,
             <<Piece("persona", 3, 900, 900)>>}
States == {<<Piece("state", 1, 0, 60)>>, <<Piece("state", 2, 0, 1300)>>}
Cards == {<<Piece("card", 1, 0, 1600)>>, <<Piece("card", 2, 0, 2000)>>,
          <<Piece("card", 3, 0, 400)>>, <<Piece("card", 4, 600, 600)>>, <<>>}
CardLists == UNION {[1 .. n -> Cards] : n \in 0 .. MaxCards}

NoPack ==
  [persona |-> <<>>, state |-> <<>>, memory_cards |-> <<>>,
   user_input |-> <<>>, estimated_tokens |-> 0 - 1]
NoAssembleArgs ==
  [persona |-> <<>>, state |-> <<>>, memory_cards |-> <<>>,
   user_input |-> <<>>]

IdleAssemble == assemble_args = NoAssembleArgs /\ assemble_pack = NoPack

InitAssemble ==
  /\ assemble_args \in
       [persona : Personas, state : States, memory_cards : CardLists,
        user_input : {<<u>> : u \in UserInputs}]
  /\ assemble_pack = NoPack

Assemble ==
  /\ assemble_pack = NoPack
  /\ assemble_args # NoAssembleArgs
  /\ assemble_pack' =
       AssemblePack(assemble_args.persona, assemble_args.state,
                    assemble_args.memory_cards, assemble_args.user_input)
  /\ UNCHANGED <<assemble_args, nonAssembleVars>>

\* ------------------------------------------------ OpenAICompatibleClient
\* _estimate_tokens(text, message_count)
estimate_tokens(t, message_count) ==
  IF IsEmpty(t) THEN message_count * 4
  ELSE (IF MostlyCjk(SumCjk(t), SumLen(t))
        THEN (2 * SumLen(t)) \div 3 ELSE SumLen(t) \div 4)
       + message_count * 4

\* the two section markers (four CJK characters and a colon each)
HistoryMarker == Piece("mark_history", 0, 4, 5)
RestMarker == Piece("mark_memory", 0, 4, 5)

\* core.py chat: the user message, its sections joined by a blank line
UserContent(history_text, memory_parts, user_input) ==
  Join(<<NL, NL>>,
       (IF ~IsEmpty(history_text)
        THEN <<(<<HistoryMarker, NL>> \o history_text)>> ELSE <<>>)
       \o (IF memory_parts # <<>>
           THEN <<(<<RestMarker, NL>> \o Join(<<NL>>, memory_parts))>>
           ELSE <<>>)
       \o <<user_input>>)

\* the position of the first piece of kind k in t, 0 when there is none
IndexOfKind(t, k) ==
  IF \E i \in 1 .. Len(t) : t[i].k = k
  THEN CHOOSE i \in 1 .. Len(t) :
         t[i].k = k /\ \A j \in 1 .. (i - 1) : t[j].k # k
  ELSE 0

\* str.strip(): the line breaks at both ends go (contents neither start nor
\* end with white space)
RECURSIVE Strip(_)
Strip(t) ==
  IF t = <<>> THEN t
  ELSE IF Head(t).k = "nl" THEN Strip(Tail(t))
  ELSE IF t[Len(t)].k = "nl" THEN Strip(SubSeq(t, 1, Len(t) - 1))
  ELSE t

\* str.split("\n")
RECURSIVE SplitLines(_)
SplitLines(t) ==
  LET i == IndexOfKind(t, "nl")
  IN IF i = 0 THEN <<t>>
     ELSE <<SubSeq(t, 1, i - 1)>> \o SplitLines(SubSeq(t, i + 1, Len(t)))

\* a slip in the line loop: a line that overflows is skipped (continue)
RECURSIVE SelectLinesSkipping(_, _, _, _)
SelectLinesSkipping(lines, k, line_tokens, budget) ==
  IF k = 0 THEN <<>>
  ELSE LET line_t == estimate_tokens(lines[k], 0)
       IN IF line_tokens + line_t > budget
          THEN SelectLinesSkipping(lines, k - 1, line_tokens, budget)
          ELSE Append(SelectLinesSkipping(lines, k - 1, line_tokens + line_t,
                                          budget), lines[k])

\* llm.py 88-96: selected_lines, from line k backwards
RECURSIVE SelectLines(_, _, _, _)
SelectLines(lines, k, line_tokens, budget) ==
  IF k = 0 THEN <<>>
  ELSE LET line_t == estimate_tokens(lines[k], 0)
       IN IF line_tokens + line_t > budget THEN <<>>
          ELSE Append(SelectLines(lines, k - 1, line_tokens + line_t, budget),
                      lines[k])

\* llm.py 66-79: the user content cut at the two markers
BeforeHistory(user_content) ==
  SubSeq(user_content, 1, IndexOfKind(user_content, HistoryMarker.k))
AfterHistory(user_content) ==
  SubSeq(user_content, IndexOfKind(user_content, HistoryMarker.k) + 1,
         Len(user_content))
HistoryPart(user_content) ==
  LET rest == AfterHistory(user_content)
      j == IndexOfKind(rest, RestMarker.k)
  IN IF j = 0 THEN rest ELSE SubSeq(rest, 1, j - 1)
RestContent(user_content) ==
  LET rest == AfterHistory(user_content)
      j == IndexOfKind(rest, RestMarker.k)
  IN IF j = 0 THEN <<>> ELSE SubSeq(rest, j, Len(rest))
HistoryLines(user_content) == SplitLines(Strip(HistoryPart(user_content)))

\* llm.py 82-83
SystemTokens(messages) == estimate_tokens(messages[1].content, 1)
TotalCurrent(messages) ==
  SystemTokens(messages) + estimate_tokens(messages[Len(messages)].content, 1)
BudgetForHistory(messages, max_input_tokens) ==
  LET user_content == messages[Len(messages)].content
      fixed_tokens == SystemTokens(messages)
                        + estimate_tokens(BeforeHistory(user_content), 0)
                        + estimate_tokens(RestContent(user_content), 0)
  IN max_input_tokens - fixed_tokens - 16

\* _apply_token_budget(messages) of a client with that max_input_tokens
ApplyTokenBudget(messages, max_input_tokens) ==
  IF Len(messages) < 2 THEN messages
  ELSE IF TotalCurrent(messages) <= max_input_tokens THEN messages
  ELSE LET system_msg == messages[1]
           user_msg == messages[Len(messages)]
           user_content == user_msg.content
           budget_for_history == BudgetForHistory(messages, max_input_tokens)
           history_lines == HistoryLines(user_content)
           selected_lines == SelectLines(history_lines, Len(history_lines), 0,
                                         budget_for_history)
       IN IF IndexOfKind(user_content, HistoryMarker.k) = 0
             \/ budget_for_history <= 0
          THEN <<system_msg, user_msg>>
          ELSE <<system_msg,
                 [user_msg EXCEPT !.content =
                    BeforeHistory(user_content) \o <<NL>>
                      \o Join(<<NL>>, selected_lines) \o <<NL>>
                      \o RestContent(user_content)]>>

\* the messages a client is given.  A history of n messages whose bodies
\* follow a pattern (two letters each; every third one 60 letters; six CJK
\* characters each), as the sliding-window text or as summary + hot tail
BudgetHistory(n, pat) ==
  [i \in 1 .. n |->
     Msg(IF i % 2 = 1 THEN "user" ELSE "assistant",
         Piece("h", i, IF pat = "cjk" THEN 6 ELSE 0,
               IF pat = "cjk" THEN 6
               ELSE IF pat = "mixed" /\ i % 3 = 0 THEN 60 ELSE 2))]
BudgetHistoryText(n, pat, form) ==
  IF form = "window" THEN FormatLines(BudgetHistory(n, pat))
  ELSE IF n = 0 THEN <<>>
  ELSE CompressedResult(<<Piece("sum", 1, 0, 40)>>,
                        FormatLines(MsgsToRetain(BudgetHistory(n, pat))))
BudgetHistoryTexts ==
  {BudgetHistoryText(n, pat, form) :
     n \in {0, RetentionCount, HistoryCap}, pat \in {"tiny", "mixed", "cjk"},
     form \in {"window", "compressed"}}
BudgetMemories ==
  {<<>>, << <<Piece("card", 5, 0, 40)>> >>, << <<Piece("card", 6, 39, 39)>> >>}
\* the current user input: a greeting, two CJK characters, a long paste
BudgetInputs ==
  {<<Piece("in", 3, 0, 11)>>, <<Piece("in", 4, 2, 2)>>,
   <<Piece("in", 5, 0, 400)>>}
BudgetSystems == {<<Piece("sys", 1, 0, 40)>>, <<Piece("sys", 2, 0, 400)>>}
\* max_input_tokens is validated to lie in 100 .. 128000; 2000 is the default
BudgetMaxima == {100, 150, 2000}

\* chat sends system + user; _call_compression sends a prompt that has no
\* section marker; a list of one message is returned as it is
ChatMessages ==
  {<<Msg("system", sys), Msg("user", UserContent(h, mem, inp))>> :
     sys \in BudgetSystems, h \in BudgetHistoryTexts, mem \in BudgetMemories,
     inp \in BudgetInputs}
CompressionMessages ==
  {<<Msg("system", <<Piece("sys", 3, 33, 37)>>),
     Msg("user", <<Piece("compress_prompt", 0, 100, 130)>> \o h
                   \o <<Piece("compress_prompt", 1, 8, 11)>>)>> :
     h \in BudgetHistoryTexts \ {<<>>}}
SingleMessages == {<<Msg("user", inp)>> : inp \in BudgetInputs}

NoBudgetArgs == [messages |-> <<>>, max_input_tokens |-> 0]
NoBudgetResult == [returned |-> FALSE, messages |-> <<>>]

IdleBudget == budget_args = NoBudgetArgs /\ budget_result = NoBudgetResult

InitBudget ==
  /\ budget_args \in
       [messages : ChatMessages \cup CompressionMessages \cup SingleMessages,
        max_input_tokens : BudgetMaxima]
  /\ budget_result = NoBudgetResult

ApplyBudget ==
  /\ ~budget_result.returned
  /\ budget_args # NoBudgetArgs
  /\ budget_result' =
       [returned |-> TRUE,
        messages |-> ApplyTokenBudget(budget_args.messages,
                                      budget_args.max_input_tokens)]
  /\ UNCHANGED <<budget_args, nonBudgetVars>>

\* ----------------------------------------- AgentCore.chat, its messages
\* the sections of memory_context: absent or empty, short, and a text of
\* core memories above the memory budget of the assembler on its own
UserInfos == {<<>>, <<Piece("user_info", 1, 0, 40)>>}
CoreMemoryTexts ==
  {<<>>, <<Piece("core", 1, 0, 400)>>, <<Piece("core", 2, 0, 4000)>>}
RelevantMemoryTexts ==
  {<<>>, <<Piece("relevant", 1, 0, 400)>>, <<Piece("relevant", 2, 0, 3400)>>}
\* the cards _retrieve_memory_cards gives when there is no memory_context
RetrievedCards == UNION {[1 .. n -> Cards \ {<<>>}] : n \in 0 .. 2}

MemoryContext(given, user_info, core_memories, relevant_memories) ==
  [given |-> given, user_info |-> user_info,
   core_memories |-> core_memories, relevant_memories |-> relevant_memories]
NoMemoryContext == MemoryContext(FALSE, <<>>, <<>>, <<>>)

\* the texts chat wraps around what it is given
DefaultPersona == <<Piece("persona", 0, 86, 127)>>
StateText(mode) == <<Piece("state", IF mode = "task" THEN 1 ELSE 0, 17, 28)>>
CoreMarker == Piece("mark_core", 0, 4, 5)
DateText == <<Piece("date", 0, 4, 25)>>

\* the non-empty ones of the texts, in their order
NonEmpty(texts) == SelectSeq(texts, LAMBDA t : ~IsEmpty(t))

\* core.py 251-269: the cards handed to the assembler
MemoryCards(memory_context, retrieved) ==
  IF memory_context.given
  THEN NonEmpty(<<memory_context.user_info, memory_context.core_memories,
                  memory_context.relevant_memories>>)
  ELSE retrieved

\* core.py 316-322
CoreMemoryParts(memory_context) ==
  IF memory_context.given
  THEN NonEmpty(<<memory_context.user_info, memory_context.core_memories>>)
  ELSE <<>>

\* core.py 355-361
DynamicMemoryParts(memory_context, pack) ==
  IF memory_context.given
  THEN NonEmpty(<<memory_context.relevant_memories>>)
  ELSE pack.memory_cards

\* core.py 328-332
SystemContent(pack, core_memory_parts) ==
  Join(<<NL, NL>>,
       NonEmpty(<<pack.persona, pack.state>>)
       \o (IF IsEmpty(Join(<<NL>>, core_memory_parts)) THEN <<>>
           ELSE <<(<<CoreMarker, NL>> \o Join(<<NL>>, core_memory_parts))>>)
       \o <<DateText>>)

\* chat from its start to the two messages it sends (no history stored, no
\* custom system prompt), and the used_memory_cards it returns
BuildMessages(user_message, memory_context, retrieved) ==
  LET pack == AssemblePack(DefaultPersona,
                           StateText(Mode(user_message)),
                           MemoryCards(memory_context, retrieved),
                           <<user_message>>)
  IN [built |-> TRUE,
      used_memory_cards |-> pack.memory_cards,
      core_memory_parts |-> CoreMemoryParts(memory_context),
      dynamic_memory_parts |-> DynamicMemoryParts(memory_context, pack),
      messages |->
        <<Msg("system",
              SystemContent(pack, CoreMemoryParts(memory_context))),
          Msg("user",
              UserContent(<<>>, DynamicMemoryParts(memory_context, pack),
                          pack.user_input))>>]

NoChatArgs ==
  [user_message |-> Piece("none", 0, 0, 0),
   memory_context |-> NoMemoryContext, retrieved |-> <<>>]
NoChatBuilt ==
  [built |-> FALSE, used_memory_cards |-> <<>>, core_memory_parts |-> <<>>,
   dynamic_memory_parts |-> <<>>, messages |-> <<>>]

IdleBuild == chat_args = NoChatArgs /\ chat_built = NoChatBuilt

\* a chat call with a memory_context, or without one over retrieved cards
InitBuild ==
  /\ chat_args \in
       [user_message : UserInputs,
        memory_context :
          {MemoryContext(TRUE, u, c, r) :
             u \in UserInfos, c \in CoreMemoryTexts,
             r \in RelevantMemoryTexts},
        retrieved : {<<>>}]
       \cup [user_message : UserInputs, memory_context : {NoMemoryContext},
             retrieved : RetrievedCards]
  /\ chat_built = NoChatBuilt

ChatBuild ==
  /\ ~chat_built.built
  /\ chat_args # NoChatArgs
  /\ chat_built' = BuildMessages(chat_args.user_message,
                                 chat_args.memory_context,
                                 chat_args.retrieved)
  /\ UNCHANGED <<chat_args, nonBuildVars>>

\* --------------------------------------------------- TemporalMemoryTree
\* how many memories are added to a tree in one behaviour
MaxEvents == 3

\* datetime, as _get_time_keys and _ensure_time_hierarchy read it: the
\* proleptic Gregorian calendar with Python's ordinals, weekday() and
\* isocalendar()
Date(y, m, d, h) == [year |-> y, month |-> m, day |-> d, hour |-> h]

\* no datetime (None)
NoDate == Date(0, 0, 0, 0)

IsLeap(y) == y % 4 = 0 /\ (y % 100 # 0 \/ y % 400 = 0)
DaysInMonth(y, m) ==
  IF m = 2 THEN (IF IsLeap(y) THEN 29 ELSE 28)
  ELSE IF m \in {4, 6, 9, 11} THEN 30 ELSE 31
RECURSIVE DaysBeforeMonth(_, _)
DaysBeforeMonth(y, m) ==
  IF m = 1 THEN 0 ELSE DaysBeforeMonth(y, m - 1) + DaysInMonth(y, m - 1)
DaysBeforeYear(y) ==
  (y - 1) * 365 + ((y - 1) \div 4) - ((y - 1) \div 100) + ((y - 1) \div 400)
ToOrdinal(dt) ==
  DaysBeforeYear(dt.year) + DaysBeforeMonth(dt.year, dt.month) + dt.day
Weekday(dt) == (ToOrdinal(dt) + 6) % 7

\* the Monday that starts ISO week 1 of year y
IsoWeek1Monday(y) ==
  LET firstday == DaysBeforeYear(y) + 1
      firstweekday == (firstday + 6) % 7
  IN IF firstweekday > 3 THEN firstday - firstweekday + 7
     ELSE firstday - firstweekday

\* dt.isocalendar()[1]
IsoWeek(dt) ==
  LET today == ToOrdinal(dt)
      week == (today - IsoWeek1Monday(dt.year)) \div 7
  IN IF today < IsoWeek1Monday(dt.year)
     THEN ((today - IsoWeek1Monday(dt.year - 1)) \div 7) + 1
     ELSE IF week >= 52 /\ today >= IsoWeek1Monday(dt.year + 1) THEN 1
     ELSE week + 1

\* dt - timedelta(days=k), for k up to 6
MinusDays(dt, k) ==
  IF dt.day > k THEN [dt EXCEPT !.day = @ - k]
  ELSE IF dt.month > 1
  THEN [dt EXCEPT !.month = @ - 1,
                  !.day = DaysInMonth(dt.year, dt.month - 1) + dt.day - k]
  ELSE [dt EXCEPT !.year = @ - 1, !.month = 12, !.day = 31 + dt.day - k]

\* _get_time_keys
GetTimeKeys(dt) ==
  [year |-> <<dt.year>>,
   month |-> <<dt.year, dt.month>>,
   week |-> <<dt.year, IsoWeek(dt)>>,
   day |-> <<dt.year, dt.month, dt.day>>]

\* no parent (None)
NoNode == 0

\* MemoryNode(...) with the dataclass defaults; importance and strength in
\* hundredths
MemoryNode(grain, ts, content, parent, importance) ==
  [time_grain |-> grain, timestamp |-> ts, content |-> content,
   parent_id |-> parent, children_ids |-> <<>>,
   base_importance |-> importance, current_strength |-> 100,
   mention_count |-> 0, last_mentioned |-> NoDate, mention_history |-> <<>>,
   emotion_tags |-> <<>>, raw_conversation |-> FALSE,
   created_at |-> manager.now, is_consolidated |-> FALSE]

DefaultImportance == 50

Digits(n) == IF n < 10 THEN 1 ELSE IF n < 100 THEN 2 ELSE 4

\* the contents of the aggregate nodes: the number(s) followed by CJK words
YearContent(dt) == <<Piece("year_memory", dt.year, 4, 8)>>
MonthContent(dt) ==
  <<Piece("month_memory", dt.year * 100 + dt.month, 5, 9 + Digits(dt.month))>>
WeekContent(dt) ==
  <<Piece("week_memory", dt.year * 100 + IsoWeek(dt), 6,
          10 + Digits(IsoWeek(dt)))>>
DayContent(dt) ==
  <<Piece("day_memory", dt.month * 100 + dt.day, 5,
          5 + Digits(dt.month) + Digits(dt.day))>>

Tree(n, yi, mi, wi, di, rc) ==
  [nodes |-> n, year_index |-> yi, month_index |-> mi, week_index |-> wi,
   day_index |-> di, root_children |-> rc]
CurrentTree ==
  Tree(nodes, year_index, month_index, week_index, day_index, root_children)
EmptyIndex == [k \in {} |-> NoNode]
EmptyTree == Tree(<<>>, EmptyIndex, EmptyIndex, EmptyIndex, EmptyIndex, <<>>)

\* index[key] = id
Put(index, key, id) ==
  [k \in DOMAIN index \cup {key} |-> IF k = key THEN id ELSE index[k]]

\* temporal_tree.py 61-69
EnsureYear(t, dt) ==
  LET key == GetTimeKeys(dt).year
      id == Len(t.nodes) + 1
  IN IF key \in DOMAIN t.year_index THEN t
     ELSE [t EXCEPT
             !.nodes = Append(@, MemoryNode("year", Date(dt.year, 1, 1, 0),
                                            YearContent(dt), NoNode,
                                            DefaultImportance)),
             !.year_index = Put(@, key, id),
             !.root_children = Append(@, id)]

\* temporal_tree.py 71-83
EnsureMonth(t, dt) ==
  LET key == GetTimeKeys(dt).month
      year_id == t.year_index[GetTimeKeys(dt).year]
      id == Len(t.nodes) + 1
  IN IF key \in DOMAIN t.month_index THEN t
     ELSE [t EXCEPT
             !.nodes = [Append(@, MemoryNode("month",
                                             Date(dt.year, dt.month, 1, 0),
                                             MonthContent(dt), year_id,
                                             DefaultImportance))
                        EXCEPT ![year_id].children_ids = Append(@, id)],
             !.month_index = Put(@, key, id)]

\* temporal_tree.py 85-99
EnsureWeek(t, dt) ==
  LET key == GetTimeKeys(dt).week
      month_id == t.month_index[GetTimeKeys(dt).month]
      id == Len(t.nodes) + 1
  IN IF key \in DOMAIN t.week_index THEN t
     ELSE [t EXCEPT
             !.nodes = [Append(@, MemoryNode("week",
                                             MinusDays(dt, Weekday(dt)),
                                             WeekContent(dt), month_id,
                                             DefaultImportance))
                        EXCEPT ![month_id].children_ids = Append(@, id)],
             !.week_index = Put(@, key, id)]

\* a slip in the day check: a day node is made for every memory
EnsureDayAlways(t, dt) ==
  LET key == GetTimeKeys(dt).day
      week_id == t.week_index[GetTimeKeys(dt).week]
      id == Len(t.nodes) + 1
  IN [t EXCEPT
        !.nodes = [Append(@, MemoryNode("day",
                                        Date(dt.year, dt.month, dt.day, 0),
                                        DayContent(dt), week_id,
                                        DefaultImportance))
                   EXCEPT ![week_id].children_ids = Append(@, id)],
        !.day_index = Put(@, key, id)]

\* temporal_tree.py 101-113
EnsureDay(t, dt) ==
  LET key == GetTimeKeys(dt).day
      week_id == t.week_index[GetTimeKeys(dt).week]
      id == Len(t.nodes) + 1
  IN IF key \in DOMAIN t.day_index THEN t
     ELSE [t EXCEPT
             !.nodes = [Append(@, MemoryNode("day",
                                             Date(dt.year, dt.month, dt.day, 0),
                                             DayContent(dt), week_id,
                                             DefaultImportance))
                        EXCEPT ![week_id].children_ids = Append(@, id)],
             !.day_index = Put(@, key, id)]

\* _ensure_time_hierarchy: the tree with the four levels in place
EnsureTimeHierarchy(t, dt) ==
  EnsureDay(EnsureWeek(EnsureMonth(EnsureYear(t, dt), dt), dt), dt)

\* MemoryNode.calculate_effective_importance, in hundredths
EffectiveImportance(n) ==
  Min(100, (n.base_importance * n.current_strength) \div 100
             + Min(30, n.mention_count * 5))

\* sorted(events, key=effective importance, reverse=True): stable
RECURSIVE InsertByImportance(_, _, _)
InsertByImportance(ns, id, sorted) ==
  IF sorted = <<>> THEN <<id>>
  ELSE IF EffectiveImportance(ns[Head(sorted)]) >= EffectiveImportance(ns[id])
  THEN <<Head(sorted)>> \o InsertByImportance(ns, id, Tail(sorted))
  ELSE <<id>> \o sorted
RECURSIVE SortByImportance(_, _)
SortByImportance(ns, ids) ==
  IF ids = <<>> THEN <<>>
  ELSE InsertByImportance(ns, ids[Len(ids)],
                          SortByImportance(ns, SubSeq(ids, 1, Len(ids) - 1)))

RECURSIVE MaxImportance(_, _)
MaxImportance(ns, ids) ==
  IF Len(ids) = 1 THEN ns[ids[1]].base_importance
  ELSE Max(ns[ids[1]].base_importance, MaxImportance(ns, Tail(ids)))

\* the full-width semicolon that joins the summaries
SummarySeparator == Piece("semicolon", 0, 0, 1)

\* _update_day_summary
UpdateDaySummary(ns, day_id) ==
  LET events == ns[day_id].children_ids
      top_events == FirstN(SortByImportance(ns, events), 3)
  IN IF events = <<>> THEN ns
     ELSE [ns EXCEPT
             ![day_id].content =
               Join(<<SummarySeparator>>,
                    [i \in 1 .. Len(top_events) |-> ns[top_events[i]].content]),
             ![day_id].base_importance = MaxImportance(ns, events)]

\* add_memory(memory)
AddMemoryTo(t, memory) ==
  LET t1 == EnsureTimeHierarchy(t, memory.timestamp)
      day_id == t1.day_index[GetTimeKeys(memory.timestamp).day]
      id == Len(t1.nodes) + 1
      stored == [Append(t1.nodes,
                        [memory EXCEPT !.parent_id = day_id,
                                       !.time_grain = "event"])
                 EXCEPT ![day_id].children_ids = Append(@, id)]
  IN [t1 EXCEPT !.nodes = UpdateDaySummary(stored, day_id)]

\* the moments memories are stamped with: two on one day, the next day, a
\* day of the same ISO week in the next month, the first week of the year,
\* the last days of December (ISO week 1 of the next year), New Year's Day
TreeTimestamps ==
  {Date(2024, 1, 30, 10), Date(2024, 1, 30, 21), Date(2024, 1, 31, 10),
   Date(2024, 2, 1, 10), Date(2024, 1, 2, 10), Date(2024, 12, 30, 10),
   Date(2025, 1, 1, 10)}
TreeImportances == {50, 80}

EventIds == {n \in 1 .. Len(nodes) : nodes[n].time_grain = "event"}

IdleTree ==
  /\ nodes = EmptyTree.nodes
  /\ year_index = EmptyIndex /\ month_index = EmptyIndex
  /\ week_index = EmptyIndex /\ day_index = EmptyIndex
  /\ root_children = <<>>

AddMemory(ts, importance) ==
  /\ Cardinality(EventIds) < MaxEvents
  /\ LET memory == MemoryNode("event", ts,
                              <<Piece("mem", Cardinality(EventIds) + 1, 0, 12)>>,
                              NoNode, importance)
         t == AddMemoryTo(CurrentTree, memory)
     IN /\ nodes' = t.nodes
        /\ year_index' = t.year_index
        /\ month_index' = t.month_index
        /\ week_index' = t.week_index
        /\ day_index' = t.day_index
        /\ root_children' = t.root_children
  /\ UNCHANGED nonTreeVars

\* ------------------------------------------- TemporalMemoryTree, delete
\* how many nodes are deleted from a tree in one behaviour
MaxDeletes == 2

\* the place of a key that `del tree.nodes[memory_id]` took out of the node
\* table (ids are never used again)
Absent ==
  [time_grain |-> "absent", timestamp |-> NoDate, content |-> <<>>,
   parent_id |-> NoNode, children_ids |-> <<>>, base_importance |-> 0,
   current_strength |-> 0, mention_count |-> 0, last_mentioned |-> NoDate,
   mention_history |-> <<>>, emotion_tags |-> <<>>,
   raw_conversation |-> FALSE, created_at |-> NoDate,
   is_consolidated |-> FALSE]

\* memory_id in tree.nodes
InTable(ns, id) == id \in 1 .. Len(ns) /\ ns[id].time_grain # "absent"

\* list.remove(x) when x is in the list: its first occurrence goes
RECURSIVE RemoveFirst(_, _)
RemoveFirst(ids, x) ==
  IF ids = <<>> THEN ids
  ELSE IF Head(ids) = x THEN Tail(ids)
  ELSE <<Head(ids)>> \o RemoveFirst(Tail(ids), x)

\* delete_memory(memory_id) of TemporalTreePlugin and of MemoryService: the
\* id leaves the children of its parent and the node table; the indexes,
\* root_children and the children of the node are not looked at
DeleteMemoryFrom(t, memory_id) ==
  IF ~InTable(t.nodes, memory_id) THEN t
  ELSE LET parent_id == t.nodes[memory_id].parent_id
           unlinked ==
             IF parent_id # NoNode /\ InTable(t.nodes, parent_id)
             THEN [t.nodes EXCEPT
                     ![parent_id].children_ids = RemoveFirst(@, memory_id)]
             ELSE t.nodes
       IN [t EXCEPT !.nodes = [unlinked EXCEPT ![memory_id] = Absent]]

\* self.nodes[id] on an id that is not in the table raises KeyError: the
\* statements before it have taken effect, the missing key stays missing
Raised(t) ==
  [tree |-> [t EXCEPT !.nodes =
               [n \in 1 .. Len(t.nodes) |->
                  IF InTable(t.nodes, n) THEN t.nodes[n] ELSE Absent]],
   raised |-> TRUE]
Completed(t) == [tree |-> t, raised |-> FALSE]

\* a level of _ensure_time_hierarchy that makes a node looks up the node of
\* the level above to append to its children
MonthRaises(t1, keys) ==
  /\ keys.month \notin DOMAIN t1.month_index
  /\ ~InTable(t1.nodes, t1.year_index[keys.year])
WeekRaises(t2, keys) ==
  /\ keys.week \notin DOMAIN t2.week_index
  /\ ~InTable(t2.nodes, t2.month_index[keys.month])
DayRaises(t3, keys) ==
  /\ keys.day \notin DOMAIN t3.day_index
  /\ ~InTable(t3.nodes, t3.week_index[keys.week])

\* add_memory, temporal_tree.py 128-136, on the tree with the levels in
\* place: the memory is stored before the day node is looked up
StoreMemory(t, t4, memory, day_id) ==
  IF InTable(t4.nodes, day_id) THEN Completed(AddMemoryTo(t, memory))
  ELSE Raised([t4 EXCEPT !.nodes =
                 Append(@, [memory EXCEPT !.parent_id = day_id,
                                          !.time_grain = "event"])])

AddFromWeek(t, t2, memory, keys) ==
  IF WeekRaises(t2, keys) THEN Raised(EnsureWeek(t2, memory.timestamp))
  ELSE IF DayRaises(EnsureWeek(t2, memory.timestamp), keys)
  THEN Raised(EnsureDay(EnsureWeek(t2, memory.timestamp), memory.timestamp))
  ELSE StoreMemory(t,
                   EnsureDay(EnsureWeek(t2, memory.timestamp),
                             memory.timestamp),
                   memory,
                   EnsureDay(EnsureWeek(t2, memory.timestamp),
                             memory.timestamp).day_index[keys.day])

\* add_memory(memory) on a tree some of whose nodes were deleted: the tree
\* it leaves, and whether it raised KeyError
AddMemoryOrRaise(t, memory) ==
  IF MonthRaises(EnsureYear(t, memory.timestamp),
                 GetTimeKeys(memory.timestamp))
  THEN Raised(EnsureMonth(EnsureYear(t, memory.timestamp), memory.timestamp))
  ELSE AddFromWeek(t,
                   EnsureMonth(EnsureYear(t, memory.timestamp),
                               memory.timestamp),
                   memory, GetTimeKeys(memory.timestamp))

\* the moments of the memories added to a tree that is also deleted from:
\* two on one day, one in the next month (same year)
DeleteTimestamps ==
  {Date(2024, 1, 30, 10), Date(2024, 1, 30, 21), Date(2024, 2, 13, 10)}

AbsentIds == {n \in 1 .. Len(nodes) : ~InTable(nodes, n)}

\* ------------------------------------------- TemporalMemoryTree, search
\* dt + timedelta(days=1)
PlusDay(dt) ==
  IF dt.day < DaysInMonth(dt.year, dt.month) THEN [dt EXCEPT !.day = @ + 1]
  ELSE IF dt.month < 12 THEN [dt EXCEPT !.month = @ + 1, !.day = 1]
  ELSE [dt EXCEPT !.year = @ + 1, !.month = 1, !.day = 1]

\* earlier <= later for two datetimes
NotAfter(earlier, later) ==
  ToOrdinal(earlier) * 24 + earlier.hour <= ToOrdinal(later) * 24 + later.hour

\* get_day_memories(date): the ids of the children of the day node
GetDayMemories(t, date) ==
  LET day_key == GetTimeKeys(date).day
  IN IF day_key \notin DOMAIN t.day_index THEN <<>>
     ELSE t.nodes[t.day_index[day_key]].children_ids

\* get_range_memories(start, end), min_importance 0.0
RECURSIVE GetRangeMemories(_, _, _)
GetRangeMemories(t, current, end) ==
  IF ~NotAfter(current, end) THEN <<>>
  ELSE GetDayMemories(t, current) \o GetRangeMemories(t, PlusDay(current), end)

\* _parse_time_hint(hint, ref) for no hint ("") and for "yesterday"
ParseTimeHint(hint, ref) ==
  IF hint = "" THEN <<MinusDays(ref, 7), ref>>
  ELSE LET yesterday == MinusDays(ref, 1)
       IN <<[yesterday EXCEPT !.hour = 0], [yesterday EXCEPT !.hour = 23]>>

\* word.lower() in node.content.lower(): the content holds the word
Contains(content, word) == \E i \in 1 .. Len(content) : content[i].k = word

\* search_by_time_and_topic(time_hint, topic), reference_time now; topic ""
\* is None; no memory carries topic tags
SearchByTimeAndTopic(t, time_hint, topic, ref) ==
  LET range == ParseTimeHint(time_hint, ref)
      memories == GetRangeMemories(t, range[1], range[2])
      OnTopic(id) == Contains(t.nodes[id].content, topic)
  IN IF topic # "" THEN SelectSeq(memories, OnTopic) ELSE memories

\* search_by_content(query, limit)
SearchByContent(t, query, limit) ==
  LET IsHit(id) == /\ t.nodes[id].time_grain = "event"
                   /\ Contains(t.nodes[id].content, query)
      results == SelectSeq([i \in 1 .. Len(t.nodes) |-> i], IsHit)
  IN FirstN(SortByImportance(t.nodes, results), limit)

\* sorted(all_events, key=timestamp, reverse=True): stable
RECURSIVE InsertByTimestamp(_, _, _)
InsertByTimestamp(ns, id, sorted) ==
  IF sorted = <<>> THEN <<id>>
  ELSE IF NotAfter(ns[id].timestamp, ns[Head(sorted)].timestamp)
  THEN <<Head(sorted)>> \o InsertByTimestamp(ns, id, Tail(sorted))
  ELSE <<id>> \o sorted
RECURSIVE SortByTimestamp(_, _)
SortByTimestamp(ns, ids) ==
  IF ids = <<>> THEN <<>>
  ELSE InsertByTimestamp(ns, ids[Len(ids)],
                         SortByTimestamp(ns, SubSeq(ids, 1, Len(ids) - 1)))

\* ------------------------------------------------------ ForgettingCurve
\* Strengths, importances and retentions are hundredths; a datetime is told
\* to the hour.

\* ForgettingConfig, in hundredths
ForgettingConfig ==
  [min_strength |-> 10, mention_boost |-> 40, importance_decay_factor |-> 50,
   repetition_decay_factor |-> 20,
   review_intervals |-> <<1, 2, 4, 7, 15, 30, 60, 120>>]

\* hours between two datetimes: (later - earlier).total_seconds() / 3600
Hours(dt) == ToOrdinal(dt) * 24 + dt.hour
HoursBetween(earlier, later) == Hours(later) - Hours(earlier)

\* math.log1p(n) in thousandths, n a mention count
Log1pTable == <<0, 693, 1099, 1386, 1609, 1792, 1946, 2079, 2197, 2303>>
Log1p(n) == Log1pTable[Min(n, Len(Log1pTable) - 1) + 1]

\* math.exp(-x) in ten-thousandths, x in thousandths: e^-1 for every whole
\* unit and the series of e^-r for the rest
RECURSIVE ExpNeg(_)
ExpNeg(x) ==
  IF x >= 12000 THEN 0
  ELSE IF x >= 1000 THEN (ExpNeg(x - 1000) * 3679) \div 10000
  ELSE LET t1 == 10 * x
           t2 == (t1 * x) \div 2000
           t3 == (t2 * x) \div 3000
           t4 == (t3 * x) \div 4000
           t5 == (t4 * x) \div 5000
           t6 == (t5 * x) \div 6000
       IN 10000 - t1 + t2 - t3 + t4 - t5 + t6

\* calculate_stability, in thousandths
CalculateStability(memory) ==
  1000
  + (memory.base_importance * ForgettingConfig.importance_decay_factor)
      \div 10
  + (Log1p(memory.mention_count) * ForgettingConfig.repetition_decay_factor)
      \div 100
  + 100 * Len(memory.emotion_tags)

\* calculate_retention(memory, now)
CalculateRetention(memory, now) ==
  LET last_reinforced == IF memory.last_mentioned # NoDate
                         THEN memory.last_mentioned ELSE memory.created_at
      hours_elapsed == HoursBetween(last_reinforced, now)
      stability == CalculateStability(memory)
      \* days_elapsed / (stability * 10), in thousandths
      x == (hours_elapsed * 100000) \div (24 * stability)
  IN IF hours_elapsed <= 0 THEN 100
     ELSE Max(ForgettingConfig.min_strength, ExpNeg(x) \div 100)

\* update_memory_strength(memory, now): the memory afterwards
UpdateMemoryStrength(memory, now) ==
  [memory EXCEPT !.current_strength = CalculateRetention(memory, now)]

\* (later - earlier).days of two datetimes
DaysBetween(earlier, later) ==
  LET h == HoursBetween(earlier, later)
  IN IF h >= 0 THEN h \div 24 ELSE 0 - ((23 - h) \div 24)

\* sorted(mention_history)
RECURSIVE InsertDate(_, _)
InsertDate(sorted, dt) ==
  IF sorted = <<>> THEN <<dt>>
  ELSE IF Hours(dt) < Hours(Head(sorted)) THEN <<dt>> \o sorted
  ELSE <<Head(sorted)>> \o InsertDate(Tail(sorted), dt)
RECURSIVE SortDates(_)
SortDates(history) ==
  IF history = <<>> THEN <<>>
  ELSE InsertDate(SortDates(SubSeq(history, 1, Len(history) - 1)),
                  history[Len(history)])

RECURSIVE SumIntervals(_)
SumIntervals(sorted) ==
  IF Len(sorted) < 2 THEN 0
  ELSE DaysBetween(sorted[1], sorted[2]) + SumIntervals(Tail(sorted))

\* _adjust_importance_by_review_timing(memory, now): the memory afterwards;
\* avg_interval < ideal_interval * 0.5 is compared without dividing
AdjustImportanceByReviewTiming(memory) ==
  LET n == Len(memory.mention_history)
      intervals == n - 1
      ideal_interval ==
        ForgettingConfig.review_intervals[
          Min(n - 1, Len(ForgettingConfig.review_intervals) - 1) + 1]
  IN IF n < 2 THEN memory
     ELSE IF 2 * SumIntervals(SortDates(memory.mention_history))
               < ideal_interval * intervals
     THEN [memory EXCEPT !.base_importance = Min(100, @ + 5)]
     ELSE memory

\* a reinforcement that takes the boost away instead of adding it
ReinforceMemoryWeakening(memory, now) ==
  [memory EXCEPT
     !.current_strength =
       Max(0, CalculateRetention(memory, now)
                - ForgettingConfig.mention_boost),
     !.mention_count = @ + 1,
     !.last_mentioned = now,
     !.mention_history = Append(@, now)]

\* reinforce_memory(memory, now): the memory afterwards
ReinforceMemory(memory, now) ==
  LET current_retention == CalculateRetention(memory, now)
      new_strength ==
        Min(100, current_retention + ForgettingConfig.mention_boost)
  IN AdjustImportanceByReviewTiming(
       [memory EXCEPT !.current_strength = new_strength,
                      !.mention_count = @ + 1,
                      !.last_mentioned = now,
                      !.mention_history = Append(@, now)])

\* ------------------------------------------------------- KnowledgeGraph
\* how many calls are made on a graph in one behaviour
MaxGraphCalls == 3

\* no entity, no relationship, no memory id (None)
NoId == 0

\* str.lower() on the names used
Lower(name) == IF name = "Ming" THEN "ming" ELSE name

\* Entity(name=..., entity_type=...) with the dataclass defaults
Entity(name, entity_type) ==
  [name |-> name, aliases |-> <<>>, entity_type |-> entity_type,
   mention_count |-> 0, recent_memory_ids |-> <<>>, first_memory_id |-> NoId]

\* Relationship(...) with the dataclass defaults where not given;
\* confidence in hundredths
DefaultConfidence == 100
Relationship(source_id, target_id, relation_type, description, evidence, bidirectional, confidence) ==
  [source_id |-> source_id, target_id |-> target_id,
   relation_type |-> relation_type, description |-> description,
   is_bidirectional |-> bidirectional, evidence_memory_ids |-> evidence,
   confidence |-> confidence]

Graph(e, r, ni, ti, oe, ie) ==
  [entities |-> e, relationships |-> r, name_index |-> ni, type_index |-> ti,
   outgoing_edges |-> oe, incoming_edges |-> ie]
CurrentGraph ==
  Graph(entities, relationships, name_index, type_index, outgoing_edges,
        incoming_edges)
EmptyMap == [k \in {} |-> <<>>]
EmptyGraph == Graph(<<>>, <<>>, EmptyIndex, EmptyMap, EmptyMap, EmptyMap)

\* dict.get(key, default)
Get(map, key, default) == IF key \in DOMAIN map THEN map[key] ELSE default

\* defaultdict(list)[key].append(x)
AppendAt(map, key, x) ==
  [k \in DOMAIN map \cup {key} |->
     IF k = key THEN Append(Get(map, key, <<>>), x) ELSE map[k]]

\* the loop over entity.aliases of add_entity
RECURSIVE IndexAliases(_, _, _)
IndexAliases(index, aliases, id) ==
  IF aliases = <<>> THEN index
  ELSE IndexAliases(Put(index, Lower(Head(aliases)), id), Tail(aliases), id)

\* add_entity(entity), the entity taking the next id
AddEntity(g, entity) ==
  LET id == Len(g.entities) + 1
  IN [g EXCEPT
        !.entities = Append(@, entity),
        !.name_index = IndexAliases(Put(@, Lower(entity.name), id),
                                    entity.aliases, id),
        !.type_index = AppendAt(@, entity.entity_type, id)]

\* find_entity_by_name: the id of the entity, NoId for None
FindEntityByName(g, name) ==
  LET entity_id == Get(g.name_index, Lower(name), NoId)
  IN IF entity_id # NoId /\ entity_id \in 1 .. Len(g.entities)
     THEN entity_id ELSE NoId

\* get_or_create_entity: the graph afterwards
GetOrCreateEntity(g, name, entity_type) ==
  IF FindEntityByName(g, name) # NoId THEN g
  ELSE AddEntity(g, Entity(name, entity_type))

\* record_entity_mention(entity_id, memory_id)
RecordEntityMention(g, entity_id, memory_id) ==
  IF entity_id \notin 1 .. Len(g.entities) THEN g
  ELSE [g EXCEPT
          !.entities[entity_id].mention_count = @ + 1,
          !.entities[entity_id].recent_memory_ids =
            LastN(Append(@, memory_id), 10),
          !.entities[entity_id].first_memory_id =
            IF @ = NoId THEN memory_id ELSE @]

\* add_relationship(relationship), the relationship taking the next id
AddRelationshipTo(g, rel) ==
  LET id == Len(g.relationships) + 1
      out1 == AppendAt(g.outgoing_edges, rel.source_id, id)
      in1 == AppendAt(g.incoming_edges, rel.target_id, id)
  IN [g EXCEPT
        !.relationships = Append(@, rel),
        !.outgoing_edges = IF rel.is_bidirectional
                           THEN AppendAt(out1, rel.target_id, id) ELSE out1,
        !.incoming_edges = IF rel.is_bidirectional
                           THEN AppendAt(in1, rel.source_id, id) ELSE in1]

\* the test of one edge in the loop of find_relationship
RelationshipMatches(rel, target_id, relation_type) ==
  /\ \/ rel.target_id = target_id
     \/ rel.is_bidirectional /\ rel.source_id = target_id
  /\ relation_type = "any" \/ rel.relation_type = relation_type

\* find_relationship: the id of the first match among the outgoing edges of
\* the source, NoId for None
FindRelationship(g, source_id, target_id, relation_type) ==
  LET edges == Get(g.outgoing_edges, source_id, <<>>)
      hits == {i \in 1 .. Len(edges) :
                 RelationshipMatches(g.relationships[edges[i]], target_id,
                                     relation_type)}
  IN IF hits = {} THEN NoId
     ELSE edges[CHOOSE i \in hits : \A j \in hits : i <= j]

\* create_relationship_between: the graph afterwards and the relationship
\* returned
CreateRelationshipBetween(g, source_name, target_name, relation_type, description, evidence_memory_id) ==
  LET g1 == GetOrCreateEntity(g, source_name, "person")
      g2 == GetOrCreateEntity(g1, target_name, "person")
      source == FindEntityByName(g2, source_name)
      target == FindEntityByName(g2, target_name)
      existing == FindRelationship(g2, source, target, relation_type)
  IN IF existing # NoId
     THEN [graph |->
             [g2 EXCEPT
                !.relationships[existing].evidence_memory_ids =
                  IF evidence_memory_id # NoId
                  THEN Append(@, evidence_memory_id) ELSE @,
                !.relationships[existing].confidence = Min(100, @ + 10)],
           rel |-> existing, found |-> TRUE]
     ELSE [graph |->
             AddRelationshipTo(g2,
               Relationship(source, target, relation_type, description,
                            IF evidence_memory_id # NoId
                            THEN <<evidence_memory_id>> ELSE <<>>,
                            TRUE, DefaultConfidence)),
           rel |-> Len(g2.relationships) + 1, found |-> FALSE]

\* the relationships of a type that join two entities, in either direction
Between(rels, a, b, relation_type) ==
  {i \in 1 .. Len(rels) :
     /\ rels[i].relation_type = relation_type
     /\ \/ rels[i].source_id = a /\ rels[i].target_id = b
        \/ rels[i].source_id = b /\ rels[i].target_id = a}

\* the calls made: names, relation types, with or without an evidence id
NamePairs ==
  {<<"Ming", "Hong">>, <<"Hong", "Ming">>, <<"ming", "Hong">>,
   <<"Ming", "Ming">>}
RelationTypes == {"friend", "family"}
GivenConfidences == {50, 95}

SetGraph(g) ==
  /\ entities' = g.entities
  /\ relationships' = g.relationships
  /\ name_index' = g.name_index
  /\ type_index' = g.type_index
  /\ outgoing_edges' = g.outgoing_edges
  /\ incoming_edges' = g.incoming_edges

IdleGraph ==
  /\ entities = <<>> /\ relationships = <<>>
  /\ name_index = EmptyIndex /\ type_index = EmptyMap
  /\ outgoing_edges = EmptyMap /\ incoming_edges = EmptyMap
  /\ graph_calls = <<>>

\* a caller adds a relationship object between two entities of the graph
AddRelationship(source_id, target_id, bidirectional, confidence) ==
  /\ Len(graph_calls) < MaxGraphCalls
  /\ source_id \in 1 .. Len(entities)
  /\ target_id \in 1 .. Len(entities)
  /\ source_id # target_id
  /\ SetGraph(AddRelationshipTo(CurrentGraph,
       Relationship(source_id, target_id, "friend", <<>>, <<>>,
                    bidirectional, confidence)))
  /\ graph_calls' = Append(graph_calls,
       [op |-> "add_relationship", source_name |-> "", target_name |-> "",
        relation_type |-> "friend", evidence |-> NoId,
        rel |-> Len(relationships) + 1, found |-> FALSE, fresh |-> FALSE,
        previous_confidence |-> NoId])
  /\ UNCHANGED nonGraphVars

\* a caller calls create_relationship_between; the evidence id, when one
\* is given, is the id of a memory made for this call
CreateRelationship(source_name, target_name, relation_type, with_evidence) ==
  /\ Len(graph_calls) < MaxGraphCalls
  /\ LET evidence == IF with_evidence THEN Len(graph_calls) + 1 ELSE NoId
         res == CreateRelationshipBetween(CurrentGraph, source_name,
                                          target_name, relation_type, <<>>,
                                          evidence)
         a == FindEntityByName(CurrentGraph, source_name)
         b == FindEntityByName(CurrentGraph, target_name)
     IN /\ SetGraph(res.graph)
        /\ graph_calls' = Append(graph_calls,
             [op |-> "create_relationship_between",
              source_name |-> source_name, target_name |-> target_name,
              relation_type |-> relation_type, evidence |-> evidence,
              rel |-> res.rel, found |-> res.found,
              fresh |-> Between(relationships, a, b, relation_type) = {},
              previous_confidence |->
                IF res.found THEN relationships[res.rel].confidence
                ELSE NoId])
  /\ UNCHANGED nonGraphVars

\* -------------------------------------------------------- MemoryManager
\* how many times the manager is saved or constructed again
MaxSaves == 2

SetTree(t) ==
  /\ nodes' = t.nodes
  /\ year_index' = t.year_index
  /\ month_index' = t.month_index
  /\ week_index' = t.week_index
  /\ day_index' = t.day_index
  /\ root_children' = t.root_children

\* TemporalMemoryTree.to_dict and KnowledgeGraph.to_dict: the tree document
\* holds the nodes, the four indexes and root_children; the graph document
\* holds the entities, the relationships, name_index and type_index
TreeToDict(t) == t
GraphToDict(g) ==
  [entities |-> g.entities, relationships |-> g.relationships,
   name_index |-> g.name_index, type_index |-> g.type_index]

\* TemporalMemoryTree.load, a classmethod: a new tree that takes the four
\* indexes and root_children of the document and no node
TreeLoad(doc) == [doc EXCEPT !.nodes = <<>>]

\* the name MemoryManager gives the user as the source of a relationship
UserName == "User"

\* _map_relation_type(relation_str)
CircleTypes == {"family", "friend", "colleague", "romantic"}
MapRelationType(relation_str) ==
  IF relation_str \in CircleTypes THEN relation_str ELSE "related_to"

\* _process_entity(entity_info, memory_id); relation "" stands for an
\* entity_info without the key "relation"
ProcessEntity(g, name, relation, memory_id) ==
  LET g1 == GetOrCreateEntity(g, name, "person")
      g2 == RecordEntityMention(g1, FindEntityByName(g1, name), memory_id)
  IN IF relation = "" THEN g2
     ELSE CreateRelationshipBetween(g2, UserName, name,
                                    MapRelationType(relation), <<>>,
                                    memory_id).graph

\* the id "user" of the synthetic center of get_social_circle: the id of
\* no entity
SyntheticUser == 0 - 1

\* the bucket of get_social_circle a relationship of a type falls into
CircleOf(relation_type) ==
  IF relation_type = "family" THEN "family"
  ELSE IF relation_type = "friend" THEN "friends"
  ELSE IF relation_type = "colleague" THEN "colleagues"
  ELSE IF relation_type = "romantic" THEN "romantic"
  ELSE "others"

\* the source id get_social_circle hands to find_relationship:
\* center_id or "user"
Center(g, center_id) ==
  IF center_id = NoId THEN SyntheticUser ELSE center_id

\* get_social_circle(center_id), NoId for None: the ids of the persons in
\* each bucket, in the order of the type index; <<>> buckets for {}
GetSocialCircle(g, center_id) ==
  LET people == Get(g.type_index, "person", <<>>)
      RelationOf(person) == FindRelationship(g, Center(g, center_id), person,
                                             "any")
      BucketOf(person) ==
        IF RelationOf(person) = NoId THEN "others"
        ELSE CircleOf(g.relationships[RelationOf(person)].relation_type)
  IN [circle \in {"family", "friends", "colleagues", "romantic", "others"}
        |-> LET InCircle(person) ==
                  /\ person # center_id
                  /\ center_id = NoId \/ center_id \in 1 .. Len(g.entities)
                  /\ BucketOf(person) = circle
            IN SelectSeq(people, InCircle)]

\* no document under storage_path yet; a manager constructed on it
NoStorage ==
  [saved |-> FALSE, tree |-> TreeToDict(EmptyTree),
   graph |-> GraphToDict(EmptyGraph)]
\* how many searches are made
MaxSearches == 1

\* search_memories(limit=10)
DefaultSearchLimit == 10

\* the ids of a set in ascending order
RECURSIVE Ascending(_)
Ascending(ids) ==
  IF ids = {} THEN <<>>
  ELSE LET least == CHOOSE i \in ids : \A j \in ids : i <= j
       IN <<least>> \o Ascending(ids \ {least})

\* the memory ids an entity refers to: set(recent_memory_ids) with
\* first_memory_id
EntityMemoryIds(entity) ==
  {entity.recent_memory_ids[i] : i \in 1 .. Len(entity.recent_memory_ids)}
    \cup (IF entity.first_memory_id # NoId THEN {entity.first_memory_id}
          ELSE {})

\* search_memories after its time/topic branch, whose results are timed:
\* the keyword branch, the entity branch and the fallback. The list built
\* from the set of entity memory ids is taken in ascending order.
CombineConditions(t, g, query, time_hint, topic, entity_name, limit, timed) ==
  LET keyword_results == SearchByContent(t, query, limit * 2)
      InTimed(id) == \E i \in 1 .. Len(timed) : timed[i] = id
      keyed == IF query = "" THEN timed
               ELSE IF timed # <<>> THEN SelectSeq(keyword_results, InTimed)
               ELSE keyword_results
      entity == IF entity_name = "" THEN NoId
                ELSE FindEntityByName(g, entity_name)
      entity_memory_ids ==
        IF entity = NoId THEN {} ELSE EntityMemoryIds(g.entities[entity])
      OfEntity(id) == id \in entity_memory_ids
      linked == IF entity = NoId THEN keyed
                ELSE IF keyed # <<>> THEN SelectSeq(keyed, OfEntity)
                ELSE Ascending({id \in entity_memory_ids :
                                  id \in 1 .. Len(t.nodes)})
      IsEvent(id) == t.nodes[id].time_grain = "event"
      all_events == SelectSeq([i \in 1 .. Len(t.nodes) |-> i], IsEvent)
  IN IF linked = <<>> /\ query = "" /\ time_hint = "" /\ topic = ""
        /\ entity_name = ""
     THEN SortByTimestamp(t.nodes, all_events)
     ELSE linked

\* search_memories(query, time_hint, topic, entity_name, limit) at the
\* moment now: the ids of the list it builds, before results[:limit]; ""
\* stands for an argument that is not given
SearchMemories(t, g, query, time_hint, topic, entity_name, limit, now) ==
  CombineConditions(t, g, query, time_hint, topic, entity_name, limit,
    IF time_hint # "" \/ topic # ""
    THEN SearchByTimeAndTopic(t, time_hint, topic, now) ELSE <<>>)

NoSearch ==
  [query |-> "", time_hint |-> "", topic |-> "", entity_name |-> "",
   results |-> <<>>]

\* the wall clock when the manager is constructed
StartOfClock == Date(2024, 1, 31, 12)
\* no social circle asked for yet
NoCircles ==
  [circle \in {"family", "friends", "colleagues", "romantic", "others"}
     |-> <<>>]

IdleManager ==
  /\ storage = NoStorage
  /\ manager = [constructed |-> "ok", last_op |-> "init", saves |-> 0,
                load_returned |-> EmptyTree, now |-> StartOfClock,
                searches |-> 0, last_search |-> NoSearch,
                consolidations |-> 0, last_consolidation |-> NoDate,
                reinforcements |-> 0,
                last_reinforce |-> [id |-> NoNode, at |-> NoDate],
                circles |-> NoCircles]

\* what the memories say and whom they mention
MemoryContents == {"noodles", "movie"}
MentionedEntities == {<<"", "">>, <<"Ming", "friend">>, <<"Hong", "">>}

\* MemoryManager.add_memory(content, timestamp, importance, entities) with
\* at most one entity; the memory id is the id of the new event node
ManagerAddMemory(ts, importance, content, name, relation) ==
  /\ manager.constructed = "ok"
  /\ Cardinality(EventIds) < MaxEvents
  /\ LET memory == MemoryNode("event", ts, <<Piece(content, 0, 0, 12)>>,
                              NoNode, importance)
         t == AddMemoryTo(CurrentTree, memory)
         memory_id == Len(t.nodes)
     IN /\ SetTree([t EXCEPT !.nodes[memory_id].raw_conversation = TRUE])
        /\ SetGraph(IF name = "" THEN CurrentGraph
                    ELSE ProcessEntity(CurrentGraph, name, relation,
                                       memory_id))
  /\ manager' = [manager EXCEPT !.last_op = "add_memory"]
  /\ UNCHANGED <<graph_calls, storage, nonManagerVars>>

\* a caller calls MemoryManager.get_social_circle()
SocialCircle ==
  /\ manager.constructed = "ok"
  /\ manager' = [manager EXCEPT
                   !.last_op = "social_circle",
                   !.circles = GetSocialCircle(CurrentGraph, NoId)]
  /\ UNCHANGED <<treeVars, graphVars, storage, nonManagerVars>>

\* a caller calls search_memories; the memories returned are reinforced
Search(query, time_hint, topic, entity_name) ==
  /\ manager.constructed = "ok"
  /\ manager.searches < MaxSearches
  /\ LET results == SearchMemories(CurrentTree, CurrentGraph, query,
                                   time_hint, topic, entity_name,
                                   DefaultSearchLimit, manager.now)
         returned == FirstN(results, DefaultSearchLimit)
         Returned(id) == \E i \in 1 .. Len(returned) : returned[i] = id
     IN /\ nodes' = [id \in 1 .. Len(nodes) |->
                       IF Returned(id)
                       THEN ReinforceMemory(nodes[id], manager.now)
                       ELSE nodes[id]]
        /\ manager' = [manager EXCEPT
                         !.last_op = "search", !.searches = @ + 1,
                         !.last_search =
                           [query |-> query, time_hint |-> time_hint,
                            topic |-> topic, entity_name |-> entity_name,
                            results |-> returned]]
  /\ UNCHANGED <<year_index, month_index, week_index, day_index,
                 root_children, graphVars, storage, nonManagerVars>>

\* how many times memories are reinforced
MaxReinforcements == 2

\* a caller calls forgetting_curve.reinforce_memory(node, at) on an event
\* of the tree
Reinforce(id, at) ==
  /\ manager.constructed = "ok"
  /\ manager.reinforcements < MaxReinforcements
  /\ id \in EventIds
  /\ nodes' = [nodes EXCEPT ![id] = ReinforceMemory(@, at)]
  /\ manager' = [manager EXCEPT !.last_op = "reinforce",
                                !.reinforcements = @ + 1,
                                !.last_reinforce = [id |-> id, at |-> at]]
  /\ UNCHANGED <<year_index, month_index, week_index, day_index,
                 root_children, graphVars, storage, nonManagerVars>>

\* dt + timedelta(hours=h) for h up to a day
PlusHours(dt, h) ==
  IF dt.hour + h < 24 THEN [dt EXCEPT !.hour = @ + h]
  ELSE [PlusDay(dt) EXCEPT !.hour = dt.hour + h - 24]

\* hours pass
MaxDays == 1
ClockTick(hours) ==
  /\ HoursBetween(StartOfClock, manager.now) + hours <= 24 * MaxDays
  /\ manager' = [manager EXCEPT !.now = PlusHours(@, hours),
                                !.last_op = "tick"]
  /\ UNCHANGED <<treeVars, graphVars, storage, nonManagerVars>>

\* days pass with no call on the manager
MaxQuietDays == 14
RECURSIVE PlusDays(_, _)
PlusDays(dt, k) == IF k = 0 THEN dt ELSE PlusDays(PlusDay(dt), k - 1)
DaysPass(days) ==
  /\ HoursBetween(StartOfClock, manager.now) + 24 * days <= 24 * MaxQuietDays
  /\ manager' = [manager EXCEPT !.now = PlusDays(@, days),
                                !.last_op = "tick"]
  /\ UNCHANGED <<treeVars, graphVars, storage, nonManagerVars>>

\* ---------------------------------------------------- MemoryConsolidator
\* how many times consolidation is run
MaxConsolidations == 2

\* ConsolidationConfig; importances and strengths in hundredths
ConsolidationConfig ==
  [consolidation_interval_hours |-> 24, short_term_retention_hours |-> 48,
   min_importance_to_keep |-> 20]

\* should_consolidate(now)
ShouldConsolidate(last_consolidation, now) ==
  \/ last_consolidation = NoDate
  \/ HoursBetween(last_consolidation, now)
       >= ConsolidationConfig.consolidation_interval_hours

\* steps 2 and 4 of consolidate: an event older than the short-term cutoff
\* and not yet consolidated
ToConsolidate(memory, now) ==
  /\ Hours(memory.timestamp)
       < Hours(now) - ConsolidationConfig.short_term_retention_hours
  /\ ~memory.is_consolidated

\* _clean_low_importance_details on one memory
CleanLowImportanceDetails(memory, now) ==
  IF /\ ~memory.is_consolidated
     /\ EffectiveImportance(memory)
          < ConsolidationConfig.min_importance_to_keep
     /\ CalculateRetention(memory, now) < 30
  THEN [memory EXCEPT !.raw_conversation = FALSE]
  ELSE memory

\* a run that sets the flag of each event anew, from its age alone
ConsolidateNodeAnew(node, now) ==
  IF node.time_grain # "event" THEN node
  ELSE LET updated == UpdateMemoryStrength(node, now)
           marked == [updated EXCEPT !.is_consolidated =
                        ToConsolidate(updated, now)]
       IN CleanLowImportanceDetails(marked, now)

\* consolidate(now) on one node of the tree
ConsolidateNode(node, now) ==
  IF node.time_grain # "event" THEN node
  ELSE LET updated == UpdateMemoryStrength(node, now)
           marked == IF ToConsolidate(updated, now)
                     THEN [updated EXCEPT !.is_consolidated = TRUE]
                     ELSE updated
       IN CleanLowImportanceDetails(marked, now)

\* MemoryManager.run_consolidation(): consolidator.consolidate() at the
\* wall clock; should_consolidate is not consulted
Consolidate ==
  /\ manager.constructed = "ok"
  /\ manager.consolidations < MaxConsolidations
  /\ nodes' = [id \in 1 .. Len(nodes) |->
                 ConsolidateNode(nodes[id], manager.now)]
  /\ manager' = [manager EXCEPT !.last_op = "consolidate",
                                !.consolidations = @ + 1,
                                !.last_consolidation = manager.now]
  /\ UNCHANGED <<year_index, month_index, week_index, day_index,
                 root_children, graphVars, storage, nonManagerVars>>

\* a caller adds a memory to the tree
TreeAddMemory(ts) ==
  /\ Cardinality(EventIds) < MaxEvents
  /\ LET memory == MemoryNode("event", ts,
                              <<Piece("mem", Len(nodes) + 1, 0, 12)>>,
                              NoNode, DefaultImportance)
         res == AddMemoryOrRaise(CurrentTree, memory)
     IN /\ SetTree(res.tree)
        /\ manager' = [manager EXCEPT
                         !.last_op = IF res.raised THEN "KeyError"
                                     ELSE "add_memory"]
  /\ UNCHANGED <<graphVars, storage, nonManagerVars>>

\* a caller deletes a node that is in the table; the manager is saved
DeleteMemory(memory_id) ==
  /\ InTable(nodes, memory_id)
  /\ Cardinality(AbsentIds) < MaxDeletes
  /\ SetTree(DeleteMemoryFrom(CurrentTree, memory_id))
  /\ storage' = [saved |-> TRUE,
                 tree |-> TreeToDict(DeleteMemoryFrom(CurrentTree, memory_id)),
                 graph |-> GraphToDict(CurrentGraph)]
  /\ manager' = [manager EXCEPT !.last_op = "delete_memory"]
  /\ UNCHANGED <<graphVars, nonManagerVars>>

\* MemoryManager.save(): both documents are written
ManagerSave ==
  /\ manager.constructed = "ok"
  /\ manager.saves < MaxSaves
  /\ storage' = [saved |-> TRUE, tree |-> TreeToDict(CurrentTree),
                 graph |-> GraphToDict(CurrentGraph)]
  /\ manager' = [manager EXCEPT !.last_op = "save", !.saves = @ + 1]
  /\ UNCHANGED <<treeVars, graphVars, nonManagerVars>>

\* MemoryManager(user_id, storage_path) on the same path: __init__ makes an
\* empty tree and an empty graph, then _load_if_exists. The tree returned by
\* memory_tree.load(tree_path) is not assigned to anything, so memory_tree
\* stays the empty tree; KnowledgeGraph has no load method, so the call on
\* an existing graph document raises AttributeError out of __init__.
ManagerConstruct ==
  /\ manager.saves < MaxSaves
  /\ SetTree(EmptyTree)
  /\ SetGraph(EmptyGraph)
  /\ graph_calls' = <<>>
  /\ manager' = [manager EXCEPT
                   !.constructed = IF storage.saved THEN "raised" ELSE "ok",
                   !.last_op = "construct", !.saves = @ + 1,
                   !.load_returned = IF storage.saved
                                     THEN TreeLoad(storage.tree)
                                     ELSE EmptyTree]
  /\ UNCHANGED <<storage, nonManagerVars>>

\* the names given to the entity-creating calls
EntityNames == {"Ming", "ming", "Hong"}

\* a caller calls get_or_create_entity(name)
GetOrCreate(name) ==
  /\ Len(graph_calls) < MaxGraphCalls
  /\ SetGraph(GetOrCreateEntity(CurrentGraph, name, "person"))
  /\ graph_calls' = Append(graph_calls,
       [op |-> "get_or_create_entity", source_name |-> name,
        target_name |-> "", relation_type |-> "", evidence |-> NoId,
        rel |-> NoId, found |-> FindEntityByName(CurrentGraph, name) # NoId,
        fresh |-> FALSE, previous_confidence |-> NoId])
  /\ UNCHANGED nonGraphVars

\* TemporalTreePlugin.add_entity(name, entity_type): the entity is put into
\* knowledge_graph.entities under a new id; no index is read or written;
\* the manager is saved
PluginAddEntity(name) ==
  /\ Len(graph_calls) < MaxGraphCalls
  /\ entities' = Append(entities, Entity(name, "person"))
  /\ graph_calls' = Append(graph_calls,
       [op |-> "plugin_add_entity", source_name |-> name,
        target_name |-> "", relation_type |-> "", evidence |-> NoId,
        rel |-> NoId, found |-> FALSE, fresh |-> FALSE,
        previous_confidence |-> NoId])
  /\ storage' = [saved |-> TRUE, tree |-> TreeToDict(CurrentTree),
                 graph |-> [GraphToDict(CurrentGraph)
                            EXCEPT !.entities = entities']]
  /\ UNCHANGED <<relationships, name_index, type_index, outgoing_edges,
                 incoming_edges, manager, treeVars, nonManagerVars>>

\* -------------------------------------------------- MemoryPluginService
\* Importances and scores are hundredths. A text is a sequence of tokens;
\* the texts used are Latin: words of two letters or more, single letters.
MaxStored == 12

Token(w, kind) == [w |-> w, kind |-> kind]

\* _extract_keywords(text): the words of two letters or more
ExtractKeywords(text) ==
  {text[i].w : i \in {j \in 1 .. Len(text) : text[j].kind = "word"}}

\* _calculate_similarity: the Jaccard similarity
CalculateSimilarity(keywords1, keywords2) ==
  IF keywords1 = {} \/ keywords2 = {} THEN 0
  ELSE (100 * Cardinality(keywords1 \cap keywords2))
         \div Cardinality(keywords1 \cup keywords2)

\* the threshold between core and library memories
CoreImportance == 80

\* get_recent_memories(limit): the plugin's memories, newest first
GetRecentMemories(stored, limit) == FirstN(stored, limit)

\* a threshold that leaves out the memories of importance exactly 0.8
GetCoreMemoriesAbove(stored) ==
  LET IsCore(m) == m.importance > CoreImportance
  IN SelectSeq(GetRecentMemories(stored, 1000), IsCore)

\* get_core_memories(min_importance=0.8)
GetCoreMemories(stored) ==
  LET IsCore(m) == m.importance >= CoreImportance
  IN SelectSeq(GetRecentMemories(stored, 1000), IsCore)

\* query.lower() in content.lower(), the query a run of tokens
HasText(content, query) ==
  \E i \in 0 .. Len(content) - Len(query) :
    \A j \in 1 .. Len(query) : content[i + j].w = query[j].w

\* search_memories(query, limit): the plugin's search, newest first
PluginSearch(stored, query, limit) ==
  LET IsHit(m) == HasText(m.content, query)
  IN FirstN(SelectSeq(stored, IsHit), limit)

\* final_score = similarity * 0.7 + importance * 0.3, in thousandths
FinalScore(m, query_keywords) ==
  7 * CalculateSimilarity(query_keywords, ExtractKeywords(m.content))
  + 3 * m.importance

\* scored_memories.sort(key=final_score, reverse=True): stable
RECURSIVE InsertByScore(_, _, _)
InsertByScore(m, sorted, kw) ==
  IF sorted = <<>> THEN <<m>>
  ELSE IF FinalScore(Head(sorted), kw) >= FinalScore(m, kw)
  THEN <<Head(sorted)>> \o InsertByScore(m, Tail(sorted), kw)
  ELSE <<m>> \o sorted
RECURSIVE SortByScore(_, _)
SortByScore(ms, kw) ==
  IF ms = <<>> THEN <<>>
  ELSE InsertByScore(ms[Len(ms)], SortByScore(SubSeq(ms, 1, Len(ms) - 1), kw),
                     kw)

\* get_relevant_memories(query, limit)
GetRelevantMemories(stored, query, limit) ==
  LET query_keywords == ExtractKeywords(query)
      IsLibrary(m) == m.importance < CoreImportance
      library_memories == SelectSeq(GetRecentMemories(stored, 1000), IsLibrary)
      IsRelated(m) ==
        CalculateSimilarity(query_keywords, ExtractKeywords(m.content)) > 0
  IN IF query = <<>> THEN <<>>
     ELSE IF query_keywords = {}
     THEN FirstN(SelectSeq(PluginSearch(stored, query, limit * 2), IsLibrary),
                 limit)
     ELSE FirstN(SelectSeq(SortByScore(library_memories, query_keywords),
                           IsRelated), limit)

\* get_conversation_context(query): the memories whose contents make up the
\* lines of the two sections; an empty section is <<>>
GetConversationContext(stored, query) ==
  [core_memories |-> FirstN(GetCoreMemories(stored), 10),
   relevant_memories |-> GetRelevantMemories(stored, query, 30)]

\* the memories a plugin holds, newest first: n memories, all core, all
\* library, or every other one of importance exactly 0.8
StoredContent(i) ==
  IF i % 3 = 0 THEN <<Token("noodles", "word"), Token("a", "letter")>>
  ELSE IF i % 3 = 1 THEN <<Token("movie", "word"), Token("night", "word")>>
  ELSE <<Token("night", "word"), Token("walk", "word")>>
StoredImportance(i, pattern) ==
  IF pattern = "core" THEN 90
  ELSE IF pattern = "library" THEN 50
  ELSE IF i % 2 = 1 THEN CoreImportance ELSE 79
StoredMemories(n, pattern) ==
  [i \in 1 .. n |->
     [id |-> i, content |-> StoredContent(i),
      importance |-> StoredImportance(i, pattern)]]
StoredSizes == {0, 1, 3, 11, MaxStored}
StoredPatterns == {"core", "library", "mixed"}
ContextQueries ==
  {<<>>, <<Token("a", "letter")>>, <<Token("noodles", "word")>>,
   <<Token("movie", "word"), Token("night", "word")>>,
   <<Token("zebra", "word")>>}

NoContextArgs == [stored |-> <<>>, query |-> <<>>, given |-> FALSE]
NoContextResult ==
  [core_memories |-> <<>>, relevant_memories |-> <<>>, returned |-> FALSE]
IdleContext ==
  /\ context_args = NoContextArgs
  /\ context_result = NoContextResult
InitContext ==
  /\ context_args \in
       {[stored |-> StoredMemories(n, pattern), query |-> query,
         given |-> TRUE] :
          n \in StoredSizes, pattern \in StoredPatterns,
          query \in ContextQueries}
  /\ context_result = NoContextResult

\* one call of get_conversation_context
ConversationContext ==
  /\ context_args.given
  /\ ~context_result.returned
  /\ LET res == GetConversationContext(context_args.stored, context_args.query)
     IN context_result' =
          [core_memories |-> res.core_memories,
           relevant_memories |-> res.relevant_memories, returned |-> TRUE]
  /\ UNCHANGED <<context_args, nonContextVars>>

\* ------------------------------------------------------ specifications
Quiet == \A r \in Reqs : req[r].pc = "idle"

Begins ==
  \/ \E r \in Reqs, s \in Sessions, m \in UserInputs,
        strat \in Strategies, thr \in Thresholds :
       ChatBegin(r, s, m, strat, thr)
  \/ \E r \in Reqs, s \in Sessions, m \in UserInputs :
       ChatUnconfigured(r, s, m)
  \/ \E s \in Sessions : ClearHistory(s)
  \/ \E s \in Sessions, n \in TranscriptLens : LoadConversation(s, n)

Steps ==
  \/ \E r \in Reqs : CheckFlag(r)
  \/ \E r \in Reqs : SetFlag(r)
  \/ \E r \in Reqs, text \in Summaries : CompressOk(r, <<text>>)
  \/ \E r \in Reqs, how \in {"raise", "empty"} : CompressFail(r, how)
  \/ \E r \in Reqs : Finally(r)
  \/ \E r \in Reqs, ans \in Answers : LlmOk(r, ans)
  \/ \E r \in Reqs : AddAssistant(r)
  \/ \E r \in Reqs, e \in LlmExceptions : LlmFail(r, e)

Init ==
  /\ InitAgent /\ IdleAssemble /\ IdleBudget /\ IdleTree /\ IdleGraph
  /\ IdleManager /\ IdleContext /\ IdleBuild

\* requests of one session served by concurrent threads
Next == Begins \/ Steps

Spec == Init /\ [][Next]_vars

\* one request at a time, each handled end to end before the next starts
NextSeq == (Quiet /\ Begins) \/ Steps

SpecSeq == Init /\ [][NextSeq]_vars

\* one call of ContextAssembler.assemble on any of the argument lists
InitA ==
  /\ InitAgent /\ InitAssemble /\ IdleBudget /\ IdleTree /\ IdleGraph
  /\ IdleManager /\ IdleContext /\ IdleBuild
NextAssemble == Assemble
SpecAssemble == InitA /\ [][NextAssemble]_vars

\* one call of _apply_token_budget on any of the message lists
InitB ==
  /\ InitAgent /\ IdleAssemble /\ InitBudget /\ IdleTree /\ IdleGraph
  /\ IdleManager /\ IdleContext /\ IdleBuild
NextBudget == ApplyBudget
SpecBudget == InitB /\ [][NextBudget]_vars

\* one chat call up to the messages it sends
InitM ==
  /\ InitAgent /\ IdleAssemble /\ IdleBudget /\ IdleTree /\ IdleGraph
  /\ IdleManager /\ IdleContext /\ InitBuild
NextBuild == ChatBuild
SpecBuild == InitM /\ [][NextBuild]_vars

\* one call of get_conversation_context on any of the stores and queries
InitC ==
  /\ InitAgent /\ IdleAssemble /\ IdleBudget /\ IdleTree /\ IdleGraph
  /\ IdleManager /\ InitContext /\ IdleBuild
NextContext == ConversationContext
SpecContext == InitC /\ [][NextContext]_vars

\* memories added to an empty TemporalMemoryTree
NextTree ==
  \E ts \in TreeTimestamps, importance \in TreeImportances :
    AddMemory(ts, importance)
SpecTree == Init /\ [][NextTree]_vars

\* memories added to a tree and nodes deleted from it
NextDelete ==
  \/ \E ts \in DeleteTimestamps : TreeAddMemory(ts)
  \/ \E memory_id \in 1 .. Len(nodes) : DeleteMemory(memory_id)
SpecDelete == Init /\ [][NextDelete]_vars

\* calls made on an empty KnowledgeGraph
NextGraph ==
  \/ \E pair \in NamePairs, relation_type \in RelationTypes,
        with_evidence \in BOOLEAN :
       CreateRelationship(pair[1], pair[2], relation_type, with_evidence)
  \/ \E source_id \in 1 .. 2, target_id \in 1 .. 2,
        bidirectional \in BOOLEAN, confidence \in GivenConfidences :
       AddRelationship(source_id, target_id, bidirectional, confidence)
SpecGraph == Init /\ [][NextGraph]_vars

\* entity-creating calls made on an empty KnowledgeGraph
NextEntity ==
  \/ \E name \in EntityNames : GetOrCreate(name)
  \/ \E name \in EntityNames : PluginAddEntity(name)
  \/ \E pair \in NamePairs, relation_type \in RelationTypes :
       CreateRelationship(pair[1], pair[2], relation_type, TRUE)
SpecEntity == Init /\ [][NextEntity]_vars

\* memories added to a MemoryManager that is saved and constructed again on
\* the same storage path
ManagerTimestamps ==
  {Date(2024, 1, 30, 10), Date(2024, 1, 31, 10), Date(2024, 2, 1, 10)}
ManagerAdds(timestamps, importances, contents, mentions) ==
  \E ts \in timestamps, importance \in importances,
     content \in contents, e \in mentions :
    ManagerAddMemory(ts, importance, content, e[1], e[2])
NextPersist ==
  \/ ManagerAdds(ManagerTimestamps, TreeImportances, {"noodles"},
                 MentionedEntities)
  \/ ManagerSave
  \/ ManagerConstruct
SpecPersist == Init /\ [][NextPersist]_vars

\* memories that mention persons, and the social circle asked for
CircleMentions ==
  {<<"Ming", "friend">>, <<"Hong", "family">>, <<"Hong", "classmate">>,
   <<"Ming", "">>}
NextCircle ==
  \/ ManagerAdds({Date(2024, 1, 30, 10), Date(2024, 1, 31, 10)},
                 {DefaultImportance}, {"noodles"}, CircleMentions)
  \/ SocialCircle
SpecCircle == Init /\ [][NextCircle]_vars

\* memories added to a MemoryManager and searched
SearchQueries == {"", "noodles"}
SearchHints == {"", "yesterday"}
SearchTopics == {"", "movie"}
SearchEntities == {"", "Ming", "Nobody"}
NextSearch ==
  \/ ManagerAdds({Date(2024, 1, 30, 10), Date(2024, 1, 31, 10)},
                 {DefaultImportance}, MemoryContents,
                 {<<"", "">>, <<"Ming", "friend">>})
  \/ \E query \in SearchQueries, time_hint \in SearchHints,
        topic \in SearchTopics, entity_name \in SearchEntities :
       Search(query, time_hint, topic, entity_name)
SpecSearch == Init /\ [][NextSearch]_vars

\* memories added to a MemoryManager whose consolidation is run, 12 hours
\* or a day apart
NextConsolidate ==
  \/ ManagerAdds({Date(2024, 1, 28, 10), Date(2024, 1, 29, 18)},
                 {10, DefaultImportance}, {"noodles"}, {<<"", "">>})
  \/ \E hours \in {12, 24} : ClockTick(hours)
  \/ Consolidate
SpecConsolidate == Init /\ [][NextConsolidate]_vars

\* memories of old and of coming days added to a MemoryManager, left alone
\* for two weeks or not, and consolidated
NextClean ==
  \/ ManagerAdds({Date(2024, 1, 28, 10), Date(2024, 2, 13, 10)},
                 {10, DefaultImportance}, {"noodles"}, {<<"", "">>})
  \/ DaysPass(MaxQuietDays)
  \/ Consolidate
SpecClean == Init /\ [][NextClean]_vars

\* memories added to a MemoryManager and reinforced at moments before and
\* after their creation
ReinforceTimes ==
  {Date(2024, 1, 30, 12), Date(2024, 1, 31, 18), Date(2024, 2, 2, 12),
   Date(2024, 2, 10, 12), Date(2024, 3, 31, 12)}
NextReinforce ==
  \/ ManagerAdds({Date(2024, 1, 30, 10)}, {10, DefaultImportance, 100},
                 {"noodles"}, {<<"", "">>})
  \/ \E id \in 1 .. Len(nodes), at \in ReinforceTimes : Reinforce(id, at)
SpecReinforce == Init /\ [][NextReinforce]_vars

\* ===================================================== claims, AgentCore

IsSuffix(t, u) == Len(t) <= Len(u) /\ t = LastN(u, Len(t))

InCompression(r) == req[r].pc \in {"check", "set", "compress", "finally"}

\* C1. When the threshold is exceeded and the compression call raises or
\* returns empty text, the text the request returns is the sliding-window
\* text of the session at that instant, and no step of that call, from its
\* snapshot to its finally, changes compressed_history or
\* conversation_history of the session.
C1_FallbackStep(r) ==
  LET s == req[r].sid
      fails == req[r].pc = "compress" /\ req'[r].pc = "finally"
               /\ req'[r].how \in {"raise", "empty"}
      ownFailingStep ==
        \/ fails
        \/ req[r].pc = "idle" /\ req'[r].pc = "check"
        \/ req[r].pc = "check" /\ req'[r].pc = "set"
        \/ req[r].pc = "set" /\ req'[r].pc = "compress"
        \/ req[r].pc = "finally" /\ req'[r].pc = "llm"
           /\ req[r].how \in {"raise", "empty"}
  IN /\ fails =>
          req'[r].out = SlidingWindowHistoryText(conversation_history'[s])
     /\ ownFailingStep =>
          LET s2 == req'[r].sid
          IN /\ conversation_history'[s2] = conversation_history[s2]
             /\ compressed_history'[s2] = compressed_history[s2]

C1_CompressionFallback == [][\A r \in Reqs : C1_FallbackStep(r)]_vars

\* C1 witness: a compression call has just raised on a session whose
\* sliding window is shorter than its history
C1_Witness ==
  \E r \in Reqs :
    /\ req[r].pc = "finally" /\ req[r].how = "raise"
    /\ req[r].out # <<>>
    /\ Len(GetConversationHistory(conversation_history[req[r].sid]))
         < Len(conversation_history[req[r].sid])

\* C2 (as claimed). No request makes the compression call of a session
\* while another request's compression call for that session is in flight
\* with the flag still raised: at most one compression is in flight.
C2_OneCompressionInFlight ==
  [][\A r \in Reqs :
       (req[r].pc = "set" /\ req'[r].pc = "compress") =>
         ~\E r2 \in Reqs \ {r} :
             /\ req[r2].pc = "compress"
             /\ req[r2].sid = req[r].sid
             /\ compression_state[req[r].sid].compressing]_vars

\* C3. When the threshold is exceeded, the flag is down and the compression
\* call returns non-empty text, then afterwards compressed_history is that
\* text, conversation_history is the last 4 messages held before the call, in
\* order, and once the call has returned the compressing flag is down.
C3_CompressionSuccess ==
  \A r \in Reqs :
    (req[r].how = "ok" /\ req[r].pc \in {"finally", "llm"}) =>
      LET s == req[r].sid
          hot == LastN(req[r].preHistory,
                       2 * COMPRESSION_CONTEXT_RETENTION_TURNS)
      IN /\ \E text \in Summaries :
              /\ compressed_history[s] = <<text>>
              /\ req[r].out = CompressedResult(<<text>>, FormatLines(hot))
         /\ conversation_history[s] = hot
         /\ req[r].pc = "llm" => ~compression_state[s].compressing

\* C3 witness: a compression of more than 4 messages has returned
C3_Witness ==
  \E r \in Reqs :
    /\ req[r].how = "ok" /\ req[r].pc = "llm"
    /\ Len(req[r].preHistory) > 2 * COMPRESSION_CONTEXT_RETENTION_TURNS
    /\ compression_state[req[r].sid].last_compressed_at # 0

\* C4. Every session's history holds at most 20 messages after every step;
\* a step that appends (a saved user message, a saved reply, a loaded
\* transcript) leaves a suffix of the old history followed by the appended
\* messages: what is removed is the oldest, the rest keeps its order.
LoadedMessages(n) ==
  LET t == Transcript(n)
      keep == {i \in 1 .. n : t[i].role \in {"user", "assistant"}}
      pos(j) == CHOOSE i \in keep : Cardinality({k \in keep : k < i}) = j - 1
  IN [j \in 1 .. Cardinality(keep) |-> t[pos(j)]]

C4_Step(s) ==
  LET h == conversation_history[s]
      h2 == conversation_history'[s]
      cap == 2 * MAX_HISTORY_TURNS
  IN /\ Len(h2) <= cap
     /\ \A r \in Reqs :
          (req[r].sid = s /\ req[r].pc = "llm" /\ req'[r].pc = "add2") =>
            /\ IsSuffix(h2, Append(h, Msg("user", req[r].msg)))
            /\ Len(h2) = Min(cap, Len(h) + 1)
     /\ \A r \in Reqs :
          (req[r].sid = s /\ req[r].pc = "add2" /\ req'[r].pc = "idle") =>
            /\ IsSuffix(h2, Append(h, Msg("assistant", req[r].ans)))
            /\ Len(h2) = Min(cap, Len(h) + 1)
     /\ ops'.loads # ops.loads =>
          \E n \in TranscriptLens :
            /\ IsSuffix(h2, LoadedMessages(n))
            /\ Len(h2) = Min(cap, Len(LoadedMessages(n)))

IsPrefix(t, u) == Len(t) <= Len(u) /\ t = SubSeq(u, 1, Len(t))

RECURSIVE SumTokens(_)
SumTokens(cards) ==
  IF cards = <<>> THEN 0
  ELSE approx_tokens(Head(cards)) + SumTokens(Tail(cards))

\* C5. The memory_cards that assemble returns are a prefix of the cards it
\* was given, their summed estimated tokens do not exceed the memory budget,
\* and the prefix ends at the first card that would overflow: when a card is
\* left out, it is the next card that did not fit, whatever comes after it.
C5_MemoryCardsPrefix ==
  assemble_pack # NoPack =>
    LET given == assemble_args.memory_cards
        kept == assemble_pack.memory_cards
    IN /\ IsPrefix(kept, given)
       /\ SumTokens(kept) <= ContextBudget.memory
       /\ Len(kept) < Len(given) =>
            SumTokens(kept) + approx_tokens(given[Len(kept) + 1])
              > ContextBudget.memory

\* C5 witness: assemble stopped at a card that overflows although a card
\* after it would have fitted
C5_Witness ==
  /\ assemble_pack # NoPack
  /\ LET given == assemble_args.memory_cards
         kept == assemble_pack.memory_cards
     IN /\ Len(kept) < Len(given)
        /\ \E j \in (Len(kept) + 2) .. Len(given) :
             /\ approx_tokens(given[j]) > 0
             /\ SumTokens(kept) + approx_tokens(given[j])
                  <= ContextBudget.memory

\* the case of C6: a system + user pair over max_input_tokens whose user
\* message has a history section, with a positive budget left for history
C6_Case ==
  /\ budget_result.returned
  /\ Len(budget_args.messages) >= 2
  /\ TotalCurrent(budget_args.messages) > budget_args.max_input_tokens
  /\ IndexOfKind(budget_args.messages[Len(budget_args.messages)].content,
                 HistoryMarker.k) # 0
  /\ BudgetForHistory(budget_args.messages, budget_args.max_input_tokens) > 0

\* C6 (as claimed). In that case the two messages returned by
\* _apply_token_budget, estimated the way the pair was estimated before
\* trimming, come to at most max_input_tokens.
C6_TrimmedFitsBudget ==
  C6_Case =>
    TotalCurrent(budget_result.messages) <= budget_args.max_input_tokens

\* the user content rebuilt around the newest k history lines
RebuiltAround(user_content, k) ==
  BeforeHistory(user_content) \o <<NL>>
    \o Join(<<NL>>, LastN(HistoryLines(user_content), k)) \o <<NL>>
    \o RestContent(user_content)

\* C7. _apply_token_budget returns the system message it was given, and the
\* user content it returns is either the one it was given or that content
\* with its history lines replaced by a contiguous suffix of them, the
\* newest lines, in their order.
C7_SystemKeptHistorySuffix ==
  budget_result.returned =>
    LET given == budget_args.messages
        got == budget_result.messages
    IN IF Len(given) < 2 THEN got = given
       ELSE /\ Len(got) = 2
            /\ got[1] = given[1]
            /\ got[2].role = given[Len(given)].role
            /\ LET u == given[Len(given)].content
               IN \/ got[2].content = u
                  \/ \E k \in 0 .. Len(HistoryLines(u)) :
                       got[2].content = RebuiltAround(u, k)

\* C7 witness: history lines were cut, some removed and some kept
C7_Witness ==
  /\ budget_result.returned
  /\ Len(budget_args.messages) = 2
  /\ LET u == budget_args.messages[2].content
     IN \E k \in 1 .. (Len(HistoryLines(u)) - 1) :
          /\ budget_result.messages[2].content = RebuiltAround(u, k)
          /\ budget_result.messages[2].content # u
          /\ budget_result.messages[1] = budget_args.messages[1]

\* ================================================= claims, tree and graph

Parent(n) == nodes[n].parent_id

\* C8 (as claimed). Every event node hangs under the day node of its own
\* date, that day node under the week node of its own ISO week, that week
\* node under the month node of its own month, and that month node under
\* the year node of its own year, which has no parent.
C8_ParentChainFromOwnKeys ==
  \A e \in EventIds :
    LET keys == GetTimeKeys(nodes[e].timestamp)
        day_id == Parent(e)
        week_id == Parent(day_id)
        month_id == Parent(week_id)
        year_id == Parent(month_id)
    IN /\ day_id = day_index[keys.day] /\ nodes[day_id].time_grain = "day"
       /\ week_id = week_index[keys.week]
       /\ nodes[week_id].time_grain = "week"
       /\ month_id = month_index[keys.month]
       /\ nodes[month_id].time_grain = "month"
       /\ year_id = year_index[keys.year]
       /\ nodes[year_id].time_grain = "year"
       /\ Parent(year_id) = NoNode

NodesOf(grain) == {n \in 1 .. Len(nodes) : nodes[n].time_grain = grain}
Injective(index) ==
  \A k1, k2 \in DOMAIN index : index[k1] = index[k2] => k1 = k2
EventKeys(level) == {GetTimeKeys(nodes[e].timestamp)[level] : e \in EventIds}

\* C9. However many events are added, there is exactly one day node for each
\* calendar day that has events, exactly one month node and one year node
\* for each month and year that has events, and as many week nodes as there
\* are week keys: each key of each index stands for one node of its own.
\* The events of one calendar day are all children of that one day node.
C9_OneNodePerKey ==
  /\ \A e \in EventIds :
       LET ts == nodes[e].timestamp
           days == {n \in NodesOf("day") :
                      nodes[n].timestamp = Date(ts.year, ts.month, ts.day, 0)}
           months == {n \in NodesOf("month") :
                        nodes[n].timestamp = Date(ts.year, ts.month, 1, 0)}
           years == {n \in NodesOf("year") :
                       nodes[n].timestamp = Date(ts.year, 1, 1, 0)}
       IN /\ Cardinality(days) = 1 /\ Cardinality(months) = 1
          /\ Cardinality(years) = 1
          /\ Parent(e) \in days
          /\ \E i \in 1 .. Len(nodes[Parent(e)].children_ids) :
               nodes[Parent(e)].children_ids[i] = e
          /\ Parent(Parent(e)) \in NodesOf("week")
  /\ Cardinality(NodesOf("day")) = Cardinality(EventKeys("day"))
  /\ Cardinality(NodesOf("week")) = Cardinality(EventKeys("week"))
  /\ Cardinality(NodesOf("month")) = Cardinality(EventKeys("month"))
  /\ Cardinality(NodesOf("year")) = Cardinality(EventKeys("year"))
  /\ Injective(day_index) /\ Injective(week_index)
  /\ Injective(month_index) /\ Injective(year_index)

\* C9 witness: three events were added, two of them on the same day
C9_Witness ==
  /\ Cardinality(EventIds) >= 3
  /\ \E e1, e2 \in EventIds :
       /\ e1 # e2
       /\ Parent(e1) = Parent(e2)
       /\ nodes[e1].timestamp.hour # nodes[e2].timestamp.hour
  /\ Cardinality(NodesOf("day")) = 2

\* the last two calls are create_relationship_between calls, each with an
\* evidence id, for the same relation type and the same two names, in the
\* same order or swapped, and before the first of them no relationship of
\* that type joined the two entities
C10_Case ==
  /\ Len(graph_calls) >= 2
  /\ LET c1 == graph_calls[Len(graph_calls) - 1]
         c2 == graph_calls[Len(graph_calls)]
     IN /\ c1.op = "create_relationship_between" /\ c2.op = c1.op
        /\ c1.evidence # NoId /\ c2.evidence # NoId
        /\ c1.relation_type = c2.relation_type
        /\ c1.fresh
        /\ \/ c1.source_name = c2.source_name
              /\ c1.target_name = c2.target_name
           \/ c1.source_name = c2.target_name
              /\ c1.target_name = c2.source_name

\* C10. After two such calls exactly one relationship of that type joins
\* the two entities, the one both calls returned; its evidence list holds
\* the two evidence ids and its confidence is min(1.0, previous + 0.1).
\* Whenever create_relationship_between finds a relationship, it adds none
\* and raises that relationship's confidence by 0.1, capped at 1.0.
C10_RelationshipDedup ==
  /\ C10_Case =>
       LET c1 == graph_calls[Len(graph_calls) - 1]
           c2 == graph_calls[Len(graph_calls)]
           a == FindEntityByName(CurrentGraph, c2.source_name)
           b == FindEntityByName(CurrentGraph, c2.target_name)
       IN /\ c2.found /\ c2.rel = c1.rel
          /\ Between(relationships, a, b, c2.relation_type) = {c2.rel}
          /\ relationships[c2.rel].evidence_memory_ids
               = <<c1.evidence, c2.evidence>>
          /\ relationships[c2.rel].confidence
               = Min(100, c2.previous_confidence + 10)
  /\ \A i \in 1 .. Len(graph_calls) :
       (graph_calls[i].op = "create_relationship_between"
        /\ graph_calls[i].found) =>
         /\ graph_calls[i].rel \in 1 .. Len(relationships)
         /\ i = Len(graph_calls) =>
              relationships[graph_calls[i].rel].confidence
                = Min(100, graph_calls[i].previous_confidence + 10)

\* C10 witness: the second call swapped source and target
C10_Witness ==
  /\ C10_Case
  /\ graph_calls[Len(graph_calls)].source_name
       = graph_calls[Len(graph_calls) - 1].target_name
  /\ graph_calls[Len(graph_calls)].source_name
       # graph_calls[Len(graph_calls)].target_name
  /\ Len(relationships[graph_calls[Len(graph_calls)].rel].evidence_memory_ids)
       = 2

\* ================================================ claims, entity names

\* C11. After any sequence of entity-creating calls, no two entities of the
\* knowledge graph have names that are equal ignoring case.
C11_UniqueEntityNames ==
  \A i, j \in 1 .. Len(entities) :
    Lower(entities[i].name) = Lower(entities[j].name) => i = j

\* ================================================ claims, MemoryManager

\* C12. After save(), constructing a new MemoryManager on the same storage
\* path succeeds, and its tree and graph hold the event memories, the
\* aggregation nodes, the entities and the relationships that were saved.
C12_PersistenceRoundTrip ==
  manager.last_op = "construct" /\ storage.saved =>
    /\ manager.constructed = "ok"
    /\ nodes = storage.tree.nodes
    /\ entities = storage.graph.entities
    /\ relationships = storage.graph.relationships

\* what a memory has to be for a search condition: its content holds the
\* keyword; its timestamp is on the day before the search; its content
\* holds the topic; the entity of that name refers to it
SatisfiesQuery(id, query) == Contains(nodes[id].content, query)
SatisfiesHint(id, now) ==
  GetTimeKeys(nodes[id].timestamp).day = GetTimeKeys(MinusDays(now, 1)).day
SatisfiesTopic(id, topic) == Contains(nodes[id].content, topic)
SatisfiesEntity(id, entity_name) ==
  /\ FindEntityByName(CurrentGraph, entity_name) # NoId
  /\ id \in EntityMemoryIds(
              entities[FindEntityByName(CurrentGraph, entity_name)])

GivenConditions(search) ==
  (IF search.query # "" THEN 1 ELSE 0)
  + (IF search.time_hint # "" \/ search.topic # "" THEN 1 ELSE 0)
  + (IF search.entity_name # "" THEN 1 ELSE 0)

\* C13. When search_memories is given more than one condition, every memory
\* it returns satisfies all the conditions given, also when one of them
\* matches nothing on its own.
C13_SearchIntersects ==
  manager.last_op = "search" /\ GivenConditions(manager.last_search) > 1 =>
    LET search == manager.last_search
    IN \A i \in 1 .. Len(search.results) :
         LET id == search.results[i]
         IN /\ search.query # "" => SatisfiesQuery(id, search.query)
            /\ search.time_hint # "" => SatisfiesHint(id, manager.now)
            /\ search.topic # "" => SatisfiesTopic(id, search.topic)
            /\ search.entity_name # ""
                 => SatisfiesEntity(id, search.entity_name)

\* C14. Running consolidation again before consolidation_interval_hours
\* have passed since the previous run changes nothing: no node's
\* current_strength, is_consolidated or raw text, and not last_consolidation.
C14_EarlyStep ==
  /\ manager'.last_op = "consolidate"
  /\ manager'.consolidations = manager.consolidations + 1
  /\ ~ShouldConsolidate(manager.last_consolidation, manager.now)
  => /\ nodes' = nodes
     /\ manager'.last_consolidation = manager.last_consolidation
C14_EarlyConsolidationNoOp == [][C14_EarlyStep]_vars

\* ============================================== claims, ForgettingCurve

\* C18. reinforce_memory(node, now) raises mention_count by exactly 1,
\* appends now to mention_history, sets last_mentioned to now, and leaves
\* current_strength at least the retention the node had at now just before
\* the call, and at most 1.0.
C18_ReinforceStep ==
  /\ manager'.last_op = "reinforce"
  /\ manager'.reinforcements = manager.reinforcements + 1
  => LET id == manager'.last_reinforce.id
         now == manager'.last_reinforce.at
     IN /\ nodes'[id].mention_count = nodes[id].mention_count + 1
        /\ nodes'[id].mention_history = Append(nodes[id].mention_history, now)
        /\ nodes'[id].last_mentioned = now
        /\ nodes'[id].current_strength >= CalculateRetention(nodes[id], now)
        /\ nodes'[id].current_strength <= 100
C18_Reinforce == [][C18_ReinforceStep]_vars

\* a memory mentioned twice, the second time so long after the first that
\* its strength stays below 1.0 even with the boost
C18_Witness ==
  /\ manager.last_op = "reinforce"
  /\ nodes[manager.last_reinforce.id].mention_count = 2
  /\ nodes[manager.last_reinforce.id].current_strength < 100
  /\ nodes[manager.last_reinforce.id].current_strength
       > ForgettingConfig.mention_boost

\* ========================================= claims, MemoryPluginService

Ids(ms) == {ms[i].id : i \in 1 .. Len(ms)}
CoreCountUpTo(stored, k) ==
  Cardinality({j \in 1 .. k : stored[j].importance >= CoreImportance})

C16_FailureResponse ==
  \A r \in Reqs :
    /\ responses[r].outcome # "raised"
    /\ responses[r].outcome = "failed" =>
         /\ \E e \in LlmExceptions :
              responses[r].assistant_message
                = <<ModelCallFailed, ExceptionText(e)>>
         /\ responses[r].mode \in {"chat", "task"}
         /\ responses[r].used_memory_cards = <<>>

\* a chat whose model call failed has returned, the session holding history
C16_Witness ==
  \E r \in Reqs :
    /\ responses[r].outcome = "failed"
    /\ conversation_history[req[r].sid] # <<>>

\* C17. A chat whose model call succeeds appends exactly two messages, the
\* user message and then the reply, adjacent and in that order; a chat
\* whose model call fails, or that returns for want of configuration,
\* appends nothing.
C17_TurnAppended ==
  [][\A r \in Reqs :
       /\ (req[r].pc = "add2" /\ req'[r].pc = "idle") =>
            LET h == conversation_history'[req[r].sid]
            IN /\ Len(h) >= 2
               /\ h[Len(h) - 1] = Msg("user", req[r].msg)
               /\ h[Len(h)] = Msg("assistant", req[r].ans)
       /\ (/\ responses'[r] # responses[r]
           /\ responses'[r].outcome \in {"failed", "unconfigured"}) =>
            conversation_history' = conversation_history]_vars

\* ============================================== claims, bulk load

\* the user and assistant messages of a transcript, in transcript order
TranscriptTurns(msgs) ==
  LET IsTurn(m) == m.role \in {"user", "assistant"}
  IN SelectSeq(msgs, IsTurn)

LoadStep == ops'.loads = ops.loads + 1

RECURSIVE SumMessageTokens(_)
SumMessageTokens(msgs) ==
  IF msgs = <<>> THEN 0
  ELSE approx_tokens(<<Head(msgs).content>>) + SumMessageTokens(Tail(msgs))

\* the longest suffix of the history within HISTORY_TOKEN_BUDGET
LongestSuffix(history) ==
  LET fits == {k \in 0 .. Len(history) :
                 SumMessageTokens(LastN(history, k)) <= HISTORY_TOKEN_BUDGET}
      n == CHOOSE k \in fits : \A j \in fits : j <= k
  IN LastN(history, n)

\* C20. The sliding-window strategy returns the longest contiguous suffix
\* of the session history, in original order, whose summed estimated tokens
\* do not exceed HISTORY_TOKEN_BUDGET: it stops at the first message that
\* would overflow and never skips over it to include an older one.
C20_SlidingWindow ==
  \A r \in Reqs :
    (req[r].pc = "llm" /\ req[r].how = "window") =>
      req[r].out
        = FormatLines(LongestSuffix(conversation_history[req[r].sid]))

\* the window was cut at a message that would overflow, an older message
\* being small enough to fit
C20_Witness ==
  \E r \in Reqs :
    /\ req[r].pc = "llm" /\ req[r].how = "window"
    /\ LET h == conversation_history[req[r].sid]
           sel == LongestSuffix(h)
       IN /\ sel # <<>>
          /\ Len(sel) < Len(h)
          /\ \E k \in 1 .. Len(h) - Len(sel) :
               SumMessageTokens(sel) + approx_tokens(<<h[k].content>>)
                 <= HISTORY_TOKEN_BUDGET

\* ================================================ claims, social circle

\* the entity the relationships of _process_entity start from
UserEntity == FindEntityByName(CurrentGraph, UserName)
InCircle(person, circle) ==
  \E i \in 1 .. Len(manager.circles[circle]) :
    manager.circles[circle][i] = person

\* C21. After add_memory records a person with a relation to the user
\* (friend, family, colleague or romantic), get_social_circle() with the
\* default center lists that person in the bucket of that relationship
\* type; a person is in 'others' only when no relationship links it to the
\* user.
C21_SocialCircle ==
  manager.last_op = "social_circle" =>
    \A i \in 1 .. Len(relationships) :
      (/\ relationships[i].source_id = UserEntity
       /\ relationships[i].relation_type \in CircleTypes)
      => /\ InCircle(relationships[i].target_id,
                     CircleOf(relationships[i].relation_type))
         /\ ~InCircle(relationships[i].target_id, "others")

\* ================================================ claims, tree rollups

\* the events below a node of the tree
EventsBelow(n) ==
  {e \in EventIds :
     n \in {Parent(e), Parent(Parent(e)), Parent(Parent(Parent(e))),
            Parent(Parent(Parent(Parent(e))))}}
MaxBaseImportance(es) ==
  CHOOSE m \in {nodes[e].base_importance : e \in es} :
    \A e \in es : nodes[e].base_importance <= m
Placeholder(n) ==
  /\ Len(nodes[n].content) = 1
  /\ nodes[n].content[1].k \in {"year_memory", "month_memory", "week_memory"}

\* C22. After every add_memory the summary content and base importance of
\* each aggregation ancestor (day, week, month, year) of the inserted event
\* are recomputed from its child events: no ancestor keeps the content it
\* was created with, its base importance is the maximum base importance of
\* the events below it, and the content of the day node is the contents of
\* its top-3 children by effective importance joined in that order.
C22_RollupsRecomputed ==
  \A n \in 1 .. Len(nodes) :
    (nodes[n].time_grain # "event" /\ EventsBelow(n) # {}) =>
      /\ nodes[n].base_importance = MaxBaseImportance(EventsBelow(n))
      /\ nodes[n].time_grain = "day" =>
           LET top == FirstN(SortByImportance(nodes, nodes[n].children_ids), 3)
           IN nodes[n].content =
                Join(<<SummarySeparator>>,
                     [i \in 1 .. Len(top) |-> nodes[top[i]].content])
      /\ nodes[n].time_grain \in {"week", "month", "year"} => ~Placeholder(n)

\* ================================================ claims, detail pruning

ConsolidateStep ==
  /\ manager'.last_op = "consolidate"
  /\ manager'.consolidations = manager.consolidations + 1

\* an event that is not consolidated and holds raw text when the run
\* starts, and whose effective importance and strength in the run are below
\* min_importance_to_keep and 0.3
Prunable(e) ==
  /\ nodes[e].time_grain = "event"
  /\ ~nodes[e].is_consolidated
  /\ nodes[e].raw_conversation
  /\ EffectiveImportance(nodes'[e])
       < ConsolidationConfig.min_importance_to_keep
  /\ nodes'[e].current_strength < 30

\* C23. A consolidation run clears the raw text of every event that is not
\* consolidated when the run starts, holds raw text, and has effective
\* importance below min_importance_to_keep and current strength below 0.3,
\* whatever its age; the content summary of the event is kept.
C23_PrunesDetails ==
  [][ConsolidateStep =>
       \A e \in 1 .. Len(nodes) :
         Prunable(e) => /\ ~nodes'[e].raw_conversation
                        /\ nodes'[e].content = nodes[e].content]_vars

\* ============================================ claims, consolidation frame

\* what a run may change of one node
FrameOfRun(before, after, now) ==
  /\ after = [before EXCEPT
                !.current_strength = after.current_strength,
                !.is_consolidated = after.is_consolidated,
                !.raw_conversation = after.raw_conversation]
  /\ before.time_grain # "event" => after = before
  /\ before.is_consolidated => after.is_consolidated
  /\ (after.is_consolidated /\ ~before.is_consolidated) =>
       Hours(before.timestamp)
         < Hours(now) - ConsolidationConfig.short_term_retention_hours
  /\ after.raw_conversation => before.raw_conversation
  /\ before.is_consolidated => ~ToConsolidate(before, now)

\* C24. A consolidation run never removes a node from the memory tree and
\* never changes any node's content, parent, children, mention_count or
\* mention_history; it only updates the strength of events, sets
\* is_consolidated on events older than the short-term retention, and
\* clears raw text. An event whose is_consolidated flag is set is never
\* selected by a later run, and the flag is never reset.
C24_ConsolidationFrame ==
  [][/\ ConsolidateStep =>
          /\ Len(nodes') = Len(nodes)
          /\ \A n \in 1 .. Len(nodes) :
               FrameOfRun(nodes[n], nodes'[n], manager.now)
          /\ <<year_index, month_index, week_index, day_index,
               root_children>>' = <<year_index, month_index, week_index,
                                    day_index, root_children>>
     /\ \A n \in 1 .. Len(nodes) :
          nodes[n].is_consolidated =>
            /\ n \in 1 .. Len(nodes')
            /\ nodes'[n].is_consolidated]_vars

\* two runs two weeks after the events were added: an old event was marked
\* by the first run and a recent one lost its raw text
C24_Witness ==
  /\ manager.consolidations = MaxConsolidations
  /\ \E e \in EventIds :
       /\ nodes[e].is_consolidated
       /\ nodes[e].current_strength < 100
       /\ Hours(nodes[e].timestamp)
            < Hours(manager.last_consolidation)
              - ConsolidationConfig.short_term_retention_hours
  /\ \E e \in EventIds : ~nodes[e].raw_conversation

\* ============================================== claims, current user input

\* the messages chat builds: a system message and a user message whose last
\* section is the current user input
IsChatPair(messages) ==
  /\ Len(messages) = 2
  /\ messages[2].content # <<>>
  /\ messages[2].content[Len(messages[2].content)].k = "in"
UserInputOf(messages) ==
  <<messages[2].content[Len(messages[2].content)]>>

\* text holds the section: the blank line that joins sections, then the input
HoldsInput(text, user_input) ==
  \E i \in 1 .. Len(text) :
    /\ i + Len(user_input) - 1 <= Len(text)
    /\ SubSeq(text, i, i + Len(user_input) - 1) = user_input
    /\ i > 2 => (text[i - 1].k = "nl" /\ text[i - 2].k = "nl")

\* C25. The user message _apply_token_budget returns for a message built by
\* chat still holds the current user input, unmodified, after the sections
\* before it, whether or not there is a relevant-memory section.
C25_UserInputKept ==
  (budget_result.returned /\ IsChatPair(budget_args.messages)) =>
    HoldsInput(budget_result.messages[2].content,
               UserInputOf(budget_args.messages))

\* ================================== claims, compression in flight and others

\* the step at which the compression call of request r returns its text
CompressionSucceeds(r) ==
  /\ req[r].pc = "compress"
  /\ req'[r].pc = "finally"
  /\ req'[r].how = "ok"

\* request r is the only chat ever started and its compression call is out,
\* yet the flag it raised is down: a clear_history or a bulk load of its
\* session, which reset the compression state, completed after the call
\* went out
ResetInFlight(r) ==
  /\ ops.chats = 1
  /\ req[r].pc = "compress"
  /\ ~compression_state[req[r].sid].compressing

\* the last such reset was a clear_history: nothing is stored
ClearedInFlight(r) ==
  /\ ResetInFlight(r)
  /\ conversation_history[req[r].sid] = <<>>
  /\ IsEmpty(compressed_history[req[r].sid])

\* the last such reset was a bulk load: its messages are the history
LoadedInFlight(r) ==
  /\ ResetInFlight(r)
  /\ conversation_history[req[r].sid] # <<>>

\* h holds the messages msgs, adjacent and in their order
HoldsMessages(h, msgs) ==
  \E i \in 1 .. (Len(h) + 1) :
    /\ i + Len(msgs) - 1 <= Len(h)
    /\ SubSeq(h, i, i + Len(msgs) - 1) = msgs

\* C26. When clear_history of a session completed while a compression call
\* for it was in flight and nothing was appended since, the history and the
\* summary of the session are still empty once the compression has returned
\* its text.
C26_ClearNotOverwritten ==
  [][\A r \in Reqs :
       (ClearedInFlight(r) /\ CompressionSucceeds(r)) =>
         /\ conversation_history'[req[r].sid] = <<>>
         /\ IsEmpty(compressed_history'[req[r].sid])]_vars

\* C27. The messages a bulk load put in a session's history while a
\* compression call for the session was in flight are still in that history
\* after the compression has returned its text.
C27_AppendedKept ==
  [][\A r \in Reqs :
       (LoadedInFlight(r) /\ CompressionSucceeds(r)) =>
         HoldsMessages(conversation_history'[req[r].sid],
                       conversation_history[req[r].sid])]_vars

\* ==================================================== claims, deletions

\* the ids the tree holds outside the keys of the node table
HeldIds ==
  {year_index[k] : k \in DOMAIN year_index}
    \cup {month_index[k] : k \in DOMAIN month_index}
    \cup {week_index[k] : k \in DOMAIN week_index}
    \cup {day_index[k] : k \in DOMAIN day_index}
    \cup {root_children[i] : i \in 1 .. Len(root_children)}
    \cup UNION {{nodes[n].children_ids[i] :
                   i \in 1 .. Len(nodes[n].children_ids)} :
                n \in 1 .. Len(nodes)}
    \cup ({nodes[n].parent_id : n \in 1 .. Len(nodes)} \ {NoNode})

\* C28. After any add_memory and delete_memory calls, every id held in the
\* four indexes, in root_children and in the children_ids or parent_id of a
\* node is in the node table, and no add_memory has failed on a missing
\* node.
C28_NoDanglingIds ==
  /\ \A id \in HeldIds : InTable(nodes, id)
  /\ manager.last_op # "KeyError"

\* ================================================ claims, nothing is lost

\* the step at which a chat that took its history text under the
\* compression strategy saves its user message
SavesUnderCompression(r) ==
  /\ req[r].pc = "llm"
  /\ req[r].how # "window"
  /\ req'[r].pc = "add2"

\* C29. With one request at a time the stored history holds only messages
\* that no compression call was given (a successful call leaves the hot
\* tail, which was not in its text). When a chat under the compression
\* strategy saves its user message, every message stored before is still
\* stored: the 20-message cap discards none of them.
C29_CapKeepsUnsummarized ==
  [][\A r \in Reqs :
       SavesUnderCompression(r) =>
         HoldsMessages(conversation_history'[req[r].sid],
                       conversation_history[req[r].sid])]_vars

\* =============================================== claims, memory that is sent

\* the memory texts chat put in the two messages
SentMemory == chat_built.core_memory_parts \o chat_built.dynamic_memory_parts

\* C30. Every memory text chat places in the system prompt or in the user
\* message is one of the cards the assembler returned (used_memory_cards),
\* and the memory texts sent do not exceed the memory budget of the
\* assembler.
C30_SentMemoryIsUsedCards ==
  chat_built.built =>
    /\ \A i \in 1 .. Len(SentMemory) :
         \E j \in 1 .. Len(chat_built.used_memory_cards) :
           chat_built.used_memory_cards[j] = SentMemory[i]
    /\ SumTokens(SentMemory) <= ContextBudget.memory

====
